---- MODULE Spec2Model ----
(***************************************************************************)
(* A model of packages/core/src/lib/crypto.ts: AES-256-GCM envelope        *)
(* encryption with neverthrow results.                                     *)
(*                                                                         *)
(* Values.  A JavaScript string is a sequence of UTF-16 code units, a      *)
(* Buffer is a sequence of bytes (0..255), and the value undefined is the  *)
(* one-element sequence <<-1>>, which is neither a string nor a Buffer.    *)
(* A Result is a record whose kind is "ok" (with value), "err" (with       *)
(* error, a record carrying the error's type and fields) or "throw" (an    *)
(* exception that escaped to the caller).                                  *)
(***************************************************************************)
EXTENDS Integers, Sequences, FiniteSets, Bags, TLC

VARIABLES env, call, ret, produced

vars == <<env, call, ret, produced>>

(***************************************************************************)
(* Program constants (crypto.ts lines 49-57).                              *)
(***************************************************************************)
KEY_LENGTH == 32
IV_LENGTH == 12
TAG_LENGTH == 16
MAX_PLAINTEXT_SIZE == 64 * 1024

Undefined == <<-1>>
EmptyString == <<>>

\* A sequence value in tuple form (a function over 1..n, normalised).
AsSeq(f) == f \o <<>>

\* The sum of the elements of the sequence f, each f[i] >= 0.
SumOf(f) == BagCardinality([i \in DOMAIN f |-> f[i] + 1]) - Len(f)

Min(a, b) == IF a < b THEN a ELSE b

(***************************************************************************)
(* UTF-8 (Buffer.byteLength(s, "utf8"), cipher.update(s, "utf8", ...),     *)
(* decipher.update(..., "utf8") + decipher.final("utf8")).                 *)
(***************************************************************************)
IsHighSurrogate(u) == u >= 55296 /\ u <= 56319
IsLowSurrogate(u) == u >= 56320 /\ u <= 57343

\* The bytes code unit i of str contributes, padded to four slots with -1.
\* A surrogate pair is written by its high half; an unpaired surrogate is
\* written as U+FFFD (EF BF BD).
Utf8UnitBytes(str, i) ==
  LET u == str[i] IN
  IF u < 128 THEN <<u, -1, -1, -1>>
  ELSE IF u < 2048 THEN <<192 + (u \div 64), 128 + (u % 64), -1, -1>>
  ELSE IF IsHighSurrogate(u) /\ i < Len(str) /\ IsLowSurrogate(str[Min(i + 1, Len(str))])
    THEN LET cp == 65536 + ((u - 55296) * 1024) + (str[i + 1] - 56320) IN
         <<240 + (cp \div 262144), 128 + ((cp \div 4096) % 64),
           128 + ((cp \div 64) % 64), 128 + (cp % 64)>>
  ELSE IF IsLowSurrogate(u) /\ i > 1 /\ IsHighSurrogate(str[IF i > 1 THEN i - 1 ELSE 1])
    THEN <<-1, -1, -1, -1>>
  ELSE IF IsHighSurrogate(u) \/ IsLowSurrogate(u) THEN <<239, 191, 189, -1>>
  ELSE <<224 + (u \div 4096), 128 + ((u \div 64) % 64), 128 + (u % 64), -1>>

IsSlotFilled(b) == b # -1

Utf8Slots(str) ==
  AsSeq([j \in 1..(4 * Len(str)) |->
           Utf8UnitBytes(str, ((j - 1) \div 4) + 1)[((j - 1) % 4) + 1]])

Utf8Encode(str) == SelectSeq(Utf8Slots(str), IsSlotFilled)

IsContinuation(b) == b >= 128 /\ b <= 191

\* The byte at position i, or -1 past the end.
ByteAt(bytes, i) == IF i >= 1 /\ i <= Len(bytes) THEN bytes[i] ELSE -1

\* The width of the sequence a lead byte opens (0 for a byte that opens none).
Utf8Width(b) ==
  IF b < 128 THEN 1
  ELSE IF b >= 194 /\ b <= 223 THEN 2
  ELSE IF b >= 224 /\ b <= 239 THEN 3
  ELSE IF b >= 240 /\ b <= 244 THEN 4
  ELSE 0

\* Whether a complete sequence starts at position i.
Utf8StartsAt(bytes, i) ==
  LET w == Utf8Width(ByteAt(bytes, i)) IN
  /\ w >= 1
  /\ \A k \in 1..(w - 1) : IsContinuation(ByteAt(bytes, i + k))

\* Whether position i is a continuation byte of a complete sequence.
Utf8Covered(bytes, i) ==
  /\ IsContinuation(ByteAt(bytes, i))
  /\ \E k \in 1..3 : /\ Utf8Width(ByteAt(bytes, i - k)) > k
                     /\ Utf8StartsAt(bytes, i - k)
                     /\ \A m \in 1..(k - 1) : IsContinuation(ByteAt(bytes, i - m))

\* The code units position i of bytes yields, padded to two slots with -1;
\* a byte of no complete sequence yields U+FFFD.
Utf8ByteUnits(bytes, i) ==
  LET b == bytes[i]
      c1 == ByteAt(bytes, i + 1) - 128
      c2 == ByteAt(bytes, i + 2) - 128
      c3 == ByteAt(bytes, i + 3) - 128
  IN
  IF Utf8Covered(bytes, i) THEN <<-1, -1>>
  ELSE IF ~Utf8StartsAt(bytes, i) THEN <<65533, -1>>
  ELSE IF b < 128 THEN <<b, -1>>
  ELSE IF b <= 223 THEN <<((b - 192) * 64) + c1, -1>>
  ELSE IF b <= 239 THEN <<((b - 224) * 4096) + (c1 * 64) + c2, -1>>
  ELSE LET cp == ((b - 240) * 262144) + (c1 * 4096) + (c2 * 64) + c3 - 65536 IN
       <<55296 + (cp \div 1024), 56320 + (cp % 1024)>>

Utf8UnitSlots(bytes) ==
  AsSeq([j \in 1..(2 * Len(bytes)) |->
           Utf8ByteUnits(bytes, ((j - 1) \div 2) + 1)[((j - 1) % 2) + 1]])

Utf8Decode(bytes) == SelectSeq(Utf8UnitSlots(bytes), IsSlotFilled)

(***************************************************************************)
(* Base64 (Buffer.from(s, "base64"), buf.toString("base64"), and the       *)
(* "base64" encodings of cipher.update/final and decipher.update).         *)
(***************************************************************************)
\* The character of a 6-bit value in the standard alphabet.
Base64Char(v) ==
  IF v < 26 THEN 65 + v
  ELSE IF v < 52 THEN 97 + (v - 26)
  ELSE IF v < 62 THEN 48 + (v - 52)
  ELSE IF v = 62 THEN 43
  ELSE 47

\* The 6-bit value of a character, -1 for a character of neither the
\* standard nor the URL-safe alphabet.
Unbase64(c) ==
  IF c >= 65 /\ c <= 90 THEN c - 65
  ELSE IF c >= 97 /\ c <= 122 THEN (c - 97) + 26
  ELSE IF c >= 48 /\ c <= 57 THEN (c - 48) + 52
  ELSE IF c = 43 \/ c = 45 THEN 62
  ELSE IF c = 47 \/ c = 95 THEN 63
  ELSE -1

IsBase64Char(c) == Unbase64(c) >= 0

\* Encoding pads the last group with "=".
Base64Encode(bytes) ==
  AsSeq([j \in 1..(4 * ((Len(bytes) + 2) \div 3)) |->
    LET g == (j - 1) \div 4
        k == (j - 1) % 4
        b0 == ByteAt(bytes, (3 * g) + 1)
        b1 == IF (3 * g) + 2 <= Len(bytes) THEN bytes[(3 * g) + 2] ELSE 0
        b2 == IF (3 * g) + 3 <= Len(bytes) THEN bytes[(3 * g) + 3] ELSE 0
    IN
    IF k = 0 THEN Base64Char(b0 \div 4)
    ELSE IF k = 1 THEN Base64Char(((b0 % 4) * 16) + (b1 \div 16))
    ELSE IF k = 2 THEN
      IF (3 * g) + 2 <= Len(bytes) THEN Base64Char(((b1 % 16) * 4) + (b2 \div 64)) ELSE 61
    ELSE
      IF (3 * g) + 3 <= Len(bytes) THEN Base64Char(b2 % 64) ELSE 61])

\* The text before the first "=": decoding stops there.
Base64Body(str) ==
  IF \E i \in 1..Len(str) : str[i] = 61
  THEN SubSeq(str, 1, (CHOOSE i \in 1..Len(str) :
                          str[i] = 61 /\ \A j \in 1..(i - 1) : str[j] # 61) - 1)
  ELSE str

\* The bytes of the 6-bit characters chars: groups of four make three bytes,
\* a rest of two makes one, a rest of three makes two, a rest of one none.
Base64Bytes(chars) ==
  AsSeq([j \in 1..((3 * (Len(chars) \div 4))
                    + (IF Len(chars) % 4 = 2 THEN 1
                       ELSE IF Len(chars) % 4 = 3 THEN 2 ELSE 0)) |->
    LET g == (j - 1) \div 3
        k == (j - 1) % 3
        v0 == Unbase64(chars[(4 * g) + 1])
        v1 == Unbase64(chars[(4 * g) + 2])
        v2 == IF (4 * g) + 3 <= Len(chars) THEN Unbase64(chars[(4 * g) + 3]) ELSE 0
        v3 == IF (4 * g) + 4 <= Len(chars) THEN Unbase64(chars[(4 * g) + 4]) ELSE 0
    IN
    IF k = 0 THEN (v0 * 4) + (v1 \div 16)
    ELSE IF k = 1 THEN ((v1 % 16) * 16) + (v2 \div 4)
    ELSE ((v2 % 4) * 64) + v3])

\* Decoding never fails: characters outside the alphabets are skipped.
Base64Decode(str) == Base64Bytes(SelectSeq(Base64Body(str), IsBase64Char))

(***************************************************************************)
(* AES-256-GCM of node:crypto (createCipheriv / createDecipheriv with      *)
(* "aes-256-gcm"), as an authenticated stream cipher: the ciphertext has   *)
(* the plaintext's length, each byte the plaintext byte plus a keystream   *)
(* byte that key and IV determine; the 16-byte tag is a keyed sum over     *)
(* key, IV and every ciphertext byte (odd lanes modulo 251, even lanes     *)
(* modulo 241), and decryption releases the plaintext only when the tag    *)
(* recomputed from key, IV and ciphertext equals the tag given.            *)
(***************************************************************************)
\* The weighted sum of bytes in lane j; every weight is in 1..89.
LaneSum(bytes, j) ==
  SumOf(AsSeq([i \in 1..Len(bytes) |-> bytes[i] * (1 + (((i * 7) + (j * 13)) % 89))]))

GcmKeystream(keySum, ivSum, i) == (keySum + (3 * ivSum) + (i * 29)) % 256

GcmApply(bytes, keySum, ivSum, sign) ==
  AsSeq([i \in 1..Len(bytes) |->
           (bytes[i] + (sign * GcmKeystream(keySum, ivSum, i)) + 256) % 256])

GcmTag(keyBytes, iv, ciphertext) ==
  AsSeq([j \in 1..TAG_LENGTH |->
     (LaneSum(keyBytes, j) + LaneSum(iv, j + 16) + LaneSum(ciphertext, j + 32)
        + Len(ciphertext))
     % (IF j % 2 = 1 THEN 251 ELSE 241)])

\* cipher.update + cipher.final + cipher.getAuthTag
GcmSeal(keyBytes, iv, cipherBytes) ==
  [threw |-> FALSE, ciphertext |-> cipherBytes, tag |-> GcmTag(keyBytes, iv, cipherBytes)]

GcmEncrypt(keyBytes, iv, plainBytes) ==
  GcmSeal(keyBytes, iv, GcmApply(plainBytes, LaneSum(keyBytes, 0), LaneSum(iv, 0), 1))

\* decipher.setAuthTag + decipher.update + decipher.final: final throws when
\* the tag does not verify.
GcmDecrypt(keyBytes, iv, tag, cipherBytes) ==
  IF GcmTag(keyBytes, iv, cipherBytes) = tag
  THEN [threw |-> FALSE,
        plainBytes |-> GcmApply(cipherBytes, LaneSum(keyBytes, 0), LaneSum(iv, 0), -1)]
  ELSE [threw |-> TRUE]

(***************************************************************************)
(* Results (neverthrow) and the error values of crypto.errors.ts.          *)
(***************************************************************************)
Ok(v) == [kind |-> "ok", value |-> v]
Err(e) == [kind |-> "err", error |-> e]
Throw(n) == [kind |-> "throw", name |-> n]

PlaintextTooLargeError(maxSize, actualSize) ==
  [type |-> "PLAINTEXT_TOO_LARGE", maxSize |-> maxSize, actualSize |-> actualSize]
\* InvalidKeyLengthError with the two lengths assigned the wrong way round.
InvalidKeyLengthError_Swapped(expectedLength, actualLength) ==
  [type |-> "INVALID_KEY_LENGTH", expectedLength |-> actualLength,
   actualLength |-> expectedLength]

InvalidKeyLengthError(expectedLength, actualLength) ==
  [type |-> "INVALID_KEY_LENGTH", expectedLength |-> expectedLength,
   actualLength |-> actualLength]
MissingEncryptionKeyError == [type |-> "MISSING_ENCRYPTION_KEY"]
InvalidIvLengthError(expectedLength, actualLength) ==
  [type |-> "INVALID_IV_LENGTH", expectedLength |-> expectedLength,
   actualLength |-> actualLength]
InvalidAuthTagLengthError(expectedLength, actualLength) ==
  [type |-> "INVALID_AUTH_TAG_LENGTH", expectedLength |-> expectedLength,
   actualLength |-> actualLength]
InvalidBase64FormatError(field, cause) ==
  [type |-> "INVALID_BASE64_FORMAT", field |-> field, cause |-> cause]
EncryptionFailedError(cause) == [type |-> "ENCRYPTION_FAILED", cause |-> cause]
DecryptionFailedError(cause) == [type |-> "DECRYPTION_FAILED", cause |-> cause]
JsonSerializationFailedError(cause) ==
  [type |-> "JSON_SERIALIZATION_FAILED", cause |-> cause]
JsonParseFailedError(cause) == [type |-> "JSON_PARSE_FAILED", cause |-> cause]

\* What one call did: its result, the key buffer as the call left it
\* (Undefined when the call made none) and the steps it went through.
Outcome(result, keyBuffer, steps) ==
  [result |-> result, keyBuffer |-> keyBuffer, steps |-> steps]

\* A test for undefined alone, key !== undefined, under which the empty
\* string is a key.
Truthy_Defined(v) == v # Undefined

\* JavaScript truthiness of a string-or-undefined value: if (key), if (!key).
Truthy(v) == v # Undefined /\ v # EmptyString

\* buf.fill(0)
FillZero(buf) == AsSeq([i \in 1..Len(buf) |-> 0])

\* Buffer.from(v, "base64") throws a TypeError for a value that is no string.
BufferFromThrows(v) == v = Undefined

(***************************************************************************)
(* getEncryptionKey: process.env.ENCRYPTION_KEY, read at each call.        *)
(***************************************************************************)
\* getEncryptionKey reading process.env.ENCRYPTION_KEY ?? "" and returning it
\* unchecked.
getEncryptionKey_DefaultEmpty(envValue) ==
  IF envValue = Undefined THEN Ok(EmptyString) ELSE Ok(envValue)

getEncryptionKey(envValue) ==
  IF ~Truthy(envValue) THEN Err(MissingEncryptionKeyError) ELSE Ok(envValue)

(***************************************************************************)
(* validateEncryptedData                                                   *)
(***************************************************************************)
\* validateEncryptedData checking the tag before the iv.
validateEncryptedData_TagFirst(data) ==
  IF BufferFromThrows(data.tag) THEN Err(InvalidBase64FormatError("tag", "TypeError"))
  ELSE IF Len(Base64Decode(data.tag)) # TAG_LENGTH
    THEN Err(InvalidAuthTagLengthError(TAG_LENGTH, Len(Base64Decode(data.tag))))
  ELSE IF BufferFromThrows(data.iv) THEN Err(InvalidBase64FormatError("iv", "TypeError"))
  ELSE IF Len(Base64Decode(data.iv)) # IV_LENGTH
    THEN Err(InvalidIvLengthError(IV_LENGTH, Len(Base64Decode(data.iv))))
  ELSE IF BufferFromThrows(data.ciphertext)
    THEN Err(InvalidBase64FormatError("ciphertext", "TypeError"))
  ELSE Ok(Undefined)

\* validateEncryptedData rejecting only fields that are too short
\* (ivBuffer.length < IV_LENGTH, tagBuffer.length < TAG_LENGTH).
validateEncryptedData_AtLeast(data) ==
  IF BufferFromThrows(data.iv) THEN Err(InvalidBase64FormatError("iv", "TypeError"))
  ELSE IF Len(Base64Decode(data.iv)) < IV_LENGTH
    THEN Err(InvalidIvLengthError(IV_LENGTH, Len(Base64Decode(data.iv))))
  ELSE IF BufferFromThrows(data.tag) THEN Err(InvalidBase64FormatError("tag", "TypeError"))
  ELSE IF Len(Base64Decode(data.tag)) < TAG_LENGTH
    THEN Err(InvalidAuthTagLengthError(TAG_LENGTH, Len(Base64Decode(data.tag))))
  ELSE IF BufferFromThrows(data.ciphertext)
    THEN Err(InvalidBase64FormatError("ciphertext", "TypeError"))
  ELSE Ok(Undefined)

validateEncryptedData(data) ==
  IF BufferFromThrows(data.iv) THEN Err(InvalidBase64FormatError("iv", "TypeError"))
  ELSE IF Len(Base64Decode(data.iv)) # IV_LENGTH
    THEN Err(InvalidIvLengthError(IV_LENGTH, Len(Base64Decode(data.iv))))
  ELSE IF BufferFromThrows(data.tag) THEN Err(InvalidBase64FormatError("tag", "TypeError"))
  ELSE IF Len(Base64Decode(data.tag)) # TAG_LENGTH
    THEN Err(InvalidAuthTagLengthError(TAG_LENGTH, Len(Base64Decode(data.tag))))
  ELSE IF BufferFromThrows(data.ciphertext)
    THEN Err(InvalidBase64FormatError("ciphertext", "TypeError"))
  ELSE Ok(Undefined)

(***************************************************************************)
(* encrypt(plaintext, key), with the value of ENCRYPTION_KEY at the call   *)
(* and the bytes randomBytes(IV_LENGTH) returns in it.                     *)
(***************************************************************************)
\* The ciphertext without "ciphertext += cipher.final("base64")".
CipherTextBase64_NoFinal(cipherBytes) ==
  Base64Encode(SubSeq(cipherBytes, 1, 3 * (Len(cipherBytes) \div 3)))

\* let ciphertext = cipher.update(plaintext, "utf8", "base64");
\* ciphertext += cipher.final("base64"): update writes the whole groups of
\* three bytes, final the rest with its padding.
CipherTextBase64(cipherBytes) ==
  Base64Encode(SubSeq(cipherBytes, 1, 3 * (Len(cipherBytes) \div 3)))
    \o Base64Encode(SubSeq(cipherBytes, (3 * (Len(cipherBytes) \div 3)) + 1,
                           Len(cipherBytes)))

\* The envelope of a cipher made with authTagLength 12: the tag is its first
\* twelve bytes.
encryptSealed_ShortTag(sealed, iv) ==
  Ok([ciphertext |-> CipherTextBase64(sealed.ciphertext),
      iv |-> Base64Encode(iv),
      tag |-> Base64Encode(SubSeq(sealed.tag, 1, 12))])

\* The envelope with the texts of iv and tag in each other's place.
encryptSealed_Swapped(sealed, iv) ==
  Ok([ciphertext |-> CipherTextBase64(sealed.ciphertext),
      iv |-> Base64Encode(sealed.tag),
      tag |-> Base64Encode(iv)])

\* The try block of encrypt, given what the cipher produced.
encryptSealed(sealed, iv) ==
  Ok([ciphertext |-> CipherTextBase64(sealed.ciphertext),
      iv |-> Base64Encode(iv),
      tag |-> Base64Encode(sealed.tag)])

\* encrypt without the keyBuffer.fill(0) of its early return.
encryptWithKeyBuffer_NoEarlyFill(plainBytes, keyBuffer, iv, steps) ==
  IF Len(keyBuffer) # KEY_LENGTH
  THEN Outcome(Err(InvalidKeyLengthError(KEY_LENGTH, Len(keyBuffer))),
               keyBuffer, steps \cup {"keyBuffer"})
  ELSE IF iv = Undefined
    THEN Outcome(Err(EncryptionFailedError("Error")), FillZero(keyBuffer),
                 steps \cup {"keyBuffer", "randomBytes"})
  ELSE Outcome(encryptSealed(GcmEncrypt(keyBuffer, iv, plainBytes), iv),
               FillZero(keyBuffer),
               steps \cup {"keyBuffer", "randomBytes", "createCipheriv"})

\* From "const keyBuffer = Buffer.from(encryptionKey, "base64")" on.  An iv
\* of Undefined stands for randomBytes throwing: the catch block wraps it.
encryptWithKeyBuffer(plainBytes, keyBuffer, iv, steps) ==
  IF Len(keyBuffer) # KEY_LENGTH
  THEN Outcome(Err(InvalidKeyLengthError(KEY_LENGTH, Len(keyBuffer))),
               FillZero(keyBuffer), steps \cup {"keyBuffer"})
  ELSE IF iv = Undefined
    THEN Outcome(Err(EncryptionFailedError("Error")), FillZero(keyBuffer),
                 steps \cup {"keyBuffer", "randomBytes"})
  ELSE Outcome(encryptSealed(GcmEncrypt(keyBuffer, iv, plainBytes), iv),
               FillZero(keyBuffer),
               steps \cup {"keyBuffer", "randomBytes", "createCipheriv"})

\* encrypt with "plaintextSize >= MAX_PLAINTEXT_SIZE" as its size check.
encryptBytes_AtLimit(plainBytes, key, envValue, iv) ==
  IF Len(plainBytes) >= MAX_PLAINTEXT_SIZE
  THEN Outcome(Err(PlaintextTooLargeError(MAX_PLAINTEXT_SIZE, Len(plainBytes))),
               Undefined, {})
  ELSE IF Truthy(key)
    THEN encryptWithKeyBuffer(plainBytes, Base64Decode(key), iv, {})
  ELSE IF getEncryptionKey(envValue).kind = "err"
    THEN Outcome(getEncryptionKey(envValue), Undefined, {"getEncryptionKey"})
  ELSE encryptWithKeyBuffer(plainBytes, Base64Decode(getEncryptionKey(envValue).value),
                            iv, {"getEncryptionKey"})

\* encrypt resolving the key before it checks the size.
encryptBytes_KeyFirst(plainBytes, key, envValue, iv) ==
  IF ~Truthy(key) /\ getEncryptionKey(envValue).kind = "err"
  THEN Outcome(getEncryptionKey(envValue), Undefined, {"getEncryptionKey"})
  ELSE IF Len(plainBytes) > MAX_PLAINTEXT_SIZE
    THEN Outcome(Err(PlaintextTooLargeError(MAX_PLAINTEXT_SIZE, Len(plainBytes))),
                 Undefined, IF Truthy(key) THEN {} ELSE {"getEncryptionKey"})
  ELSE IF Truthy(key)
    THEN encryptWithKeyBuffer(plainBytes, Base64Decode(key), iv, {})
  ELSE encryptWithKeyBuffer(plainBytes, Base64Decode(getEncryptionKey(envValue).value),
                            iv, {"getEncryptionKey"})

\* From the size check on; plainBytes are the UTF-8 bytes of the plaintext.
encryptBytes(plainBytes, key, envValue, iv) ==
  IF Len(plainBytes) > MAX_PLAINTEXT_SIZE
  THEN Outcome(Err(PlaintextTooLargeError(MAX_PLAINTEXT_SIZE, Len(plainBytes))),
               Undefined, {})
  ELSE IF Truthy(key)
    THEN encryptWithKeyBuffer(plainBytes, Base64Decode(key), iv, {})
  ELSE IF getEncryptionKey(envValue).kind = "err"
    THEN Outcome(getEncryptionKey(envValue), Undefined, {"getEncryptionKey"})
  ELSE encryptWithKeyBuffer(plainBytes, Base64Decode(getEncryptionKey(envValue).value),
                            iv, {"getEncryptionKey"})

\* Buffer.byteLength(plaintext, "utf8") throws a TypeError for a plaintext
\* that is no string; nothing in encrypt catches it.
encrypt(plaintext, key, envValue, iv) ==
  IF plaintext = Undefined THEN Outcome(Throw("TypeError"), Undefined, {})
  ELSE encryptBytes(Utf8Encode(plaintext), key, envValue, iv)

(***************************************************************************)
(* decrypt(encryptedData, key), with the value of ENCRYPTION_KEY at the    *)
(* call.                                                                   *)
(***************************************************************************)
\* The try block of decrypt with a catch that returns the empty text.
decryptOpened_Swallowed(opened) ==
  IF opened.threw THEN Ok(EmptyString)
  ELSE Ok(Utf8Decode(opened.plainBytes))

\* The catch of decrypt reporting what the decipher threw as a bad tag.
decryptOpened_BadTag(opened) ==
  IF opened.threw THEN Err(InvalidAuthTagLengthError(TAG_LENGTH, TAG_LENGTH))
  ELSE Ok(Utf8Decode(opened.plainBytes))

\* The try block of decrypt, given what the decipher did.
decryptOpened(opened) ==
  IF opened.threw THEN Err(DecryptionFailedError("Error"))
  ELSE Ok(Utf8Decode(opened.plainBytes))

\* decrypt without "plaintext += decipher.final("utf8")": the tag is never
\* verified.
decryptWithKeyBuffer_NoFinal(encryptedData, keyBuffer, steps) ==
  IF Len(keyBuffer) # KEY_LENGTH
  THEN Outcome(Err(InvalidKeyLengthError(KEY_LENGTH, Len(keyBuffer))),
               FillZero(keyBuffer), steps \cup {"keyBuffer"})
  ELSE Outcome(Ok(Utf8Decode(GcmApply(Base64Decode(encryptedData.ciphertext),
                                      LaneSum(keyBuffer, 0),
                                      LaneSum(Base64Decode(encryptedData.iv), 0), -1))),
               FillZero(keyBuffer), steps \cup {"keyBuffer", "createDecipheriv"})

\* From "const keyBuffer = Buffer.from(encryptionKey, "base64")" on.
decryptWithKeyBuffer(encryptedData, keyBuffer, steps) ==
  IF Len(keyBuffer) # KEY_LENGTH
  THEN Outcome(Err(InvalidKeyLengthError(KEY_LENGTH, Len(keyBuffer))),
               FillZero(keyBuffer), steps \cup {"keyBuffer"})
  ELSE Outcome(decryptOpened(GcmDecrypt(keyBuffer,
                                        Base64Decode(encryptedData.iv),
                                        Base64Decode(encryptedData.tag),
                                        Base64Decode(encryptedData.ciphertext))),
               FillZero(keyBuffer), steps \cup {"keyBuffer", "createDecipheriv"})

\* decrypt resolving the key before it validates the envelope.
decrypt_KeyFirst(encryptedData, key, envValue) ==
  IF ~Truthy(key) /\ getEncryptionKey(envValue).kind = "err"
  THEN Outcome(getEncryptionKey(envValue), Undefined, {"getEncryptionKey"})
  ELSE IF validateEncryptedData(encryptedData).kind = "err"
    THEN Outcome(validateEncryptedData(encryptedData), Undefined,
                 IF Truthy(key) THEN {} ELSE {"getEncryptionKey"})
  ELSE IF Truthy(key)
    THEN decryptWithKeyBuffer(encryptedData, Base64Decode(key), {})
  ELSE decryptWithKeyBuffer(encryptedData,
                            Base64Decode(getEncryptionKey(envValue).value),
                            {"getEncryptionKey"})

\* decrypt preferring ENCRYPTION_KEY, when set, to its key argument.
decrypt_EnvFirst(encryptedData, key, envValue) ==
  IF validateEncryptedData(encryptedData).kind = "err"
  THEN Outcome(validateEncryptedData(encryptedData), Undefined, {})
  ELSE IF Truthy(envValue)
    THEN decryptWithKeyBuffer(encryptedData, Base64Decode(envValue), {"getEncryptionKey"})
  ELSE IF Truthy(key)
    THEN decryptWithKeyBuffer(encryptedData, Base64Decode(key), {})
  ELSE Outcome(Err(MissingEncryptionKeyError), Undefined, {"getEncryptionKey"})

decrypt(encryptedData, key, envValue) ==
  IF validateEncryptedData(encryptedData).kind = "err"
  THEN Outcome(validateEncryptedData(encryptedData), Undefined, {})
  ELSE IF Truthy(key)
    THEN decryptWithKeyBuffer(encryptedData, Base64Decode(key), {})
  ELSE IF getEncryptionKey(envValue).kind = "err"
    THEN Outcome(getEncryptionKey(envValue), Undefined, {"getEncryptionKey"})
  ELSE decryptWithKeyBuffer(encryptedData,
                            Base64Decode(getEncryptionKey(envValue).value),
                            {"getEncryptionKey"})

\* generateEncryptionKey with toString() in place of toString("base64"): the
\* bytes read as UTF-8 text.
generateEncryptionKey_Utf8(randomKeyBytes) == Utf8Decode(randomKeyBytes)

\* generateEncryptionKey, given the bytes randomBytes(KEY_LENGTH) returns.
generateEncryptionKey(randomKeyBytes) == Base64Encode(randomKeyBytes)

(***************************************************************************)
(* JSON.  A JavaScript value is a record with its type t and, where it has *)
(* one, its content: the items of an array, the <<name, value>> pairs of   *)
(* an object, the code units s of a string, the integer n of a number.     *)
(***************************************************************************)
JsUndefined == [t |-> "undefined"]
JsFunction == [t |-> "function"]
JsSymbol == [t |-> "symbol"]
JsBigInt == [t |-> "bigint"]
JsCyclic == [t |-> "cyclic"]
JsNull == [t |-> "null"]
JsNaN == [t |-> "nan"]
JsBoolean(b) == [t |-> "boolean", b |-> b]
JsNumber(n) == [t |-> "number", n |-> n]
JsString(str) == [t |-> "string", s |-> str]
JsArray(items) == [t |-> "array", items |-> items]
JsObject(pairs) == [t |-> "object", pairs |-> pairs]

\* Values JSON.stringify leaves out: it returns undefined for them, writes
\* null for them in an array and drops them from an object.
JsonOmitted(value) == value.t \in {"undefined", "function", "symbol"}

\* Values JSON.stringify throws a TypeError on, wherever they are nested.
RECURSIVE JsonThrows(_)
JsonThrows(value) ==
  IF value.t \in {"bigint", "cyclic"} THEN TRUE
  ELSE IF value.t = "array" THEN \E i \in 1..Len(value.items) : JsonThrows(value.items[i])
  ELSE IF value.t = "object"
    THEN \E i \in 1..Len(value.pairs) : JsonThrows(value.pairs[i][2])
  ELSE FALSE

HexDigit(d) == IF d < 10 THEN 48 + d ELSE 97 + (d - 10)

RECURSIVE Digits(_)
Digits(n) == IF n < 10 THEN <<48 + n>> ELSE Append(Digits(n \div 10), 48 + (n % 10))

\* One code unit inside a JSON string: the quote and the backslash are
\* escaped, a control character and an unpaired surrogate are written \uXXXX.
JsonQuoteUnit(str, i) ==
  LET u == str[i] IN
  IF u = 34 THEN <<92, 34>>
  ELSE IF u = 92 THEN <<92, 92>>
  ELSE IF u = 8 THEN <<92, 98>>
  ELSE IF u = 9 THEN <<92, 116>>
  ELSE IF u = 10 THEN <<92, 110>>
  ELSE IF u = 12 THEN <<92, 102>>
  ELSE IF u = 13 THEN <<92, 114>>
  ELSE IF \/ u < 32
          \/ IsHighSurrogate(u) /\ ~(i < Len(str) /\ IsLowSurrogate(str[Min(i + 1, Len(str))]))
          \/ IsLowSurrogate(u) /\ ~(i > 1 /\ IsHighSurrogate(str[IF i > 1 THEN i - 1 ELSE 1]))
    THEN <<92, 117, HexDigit(u \div 4096), HexDigit((u \div 256) % 16),
           HexDigit((u \div 16) % 16), HexDigit(u % 16)>>
  ELSE <<u>>

\* Six slots for each code unit, holding what it is written as and -1 in the
\* slots it leaves empty.
JsonQuoteSlots(str) ==
  AsSeq([j \in 1..(6 * Len(str)) |->
    IF ((j - 1) % 6) + 1 <= Len(JsonQuoteUnit(str, ((j - 1) \div 6) + 1))
    THEN JsonQuoteUnit(str, ((j - 1) \div 6) + 1)[((j - 1) % 6) + 1]
    ELSE -1])

JsonQuote(str) == <<34>> \o SelectSeq(JsonQuoteSlots(str), IsSlotFilled) \o <<34>>

\* The text of a value JSON.stringify neither omits nor throws on.
RECURSIVE JsonText(_)
RECURSIVE JsonItems(_, _)
RECURSIVE JsonMembers(_, _, _)
JsonText(value) ==
  IF value.t \in {"null", "nan"} THEN <<110, 117, 108, 108>>
  ELSE IF value.t = "boolean"
    THEN IF value.b THEN <<116, 114, 117, 101>> ELSE <<102, 97, 108, 115, 101>>
  ELSE IF value.t = "number"
    THEN IF value.n < 0 THEN <<45>> \o Digits(-value.n) ELSE Digits(value.n)
  ELSE IF value.t = "string" THEN JsonQuote(value.s)
  ELSE IF value.t = "array" THEN <<91>> \o JsonItems(value.items, 1) \o <<93>>
  ELSE <<123>> \o JsonMembers(value.pairs, 1, TRUE) \o <<125>>

JsonItems(items, i) ==
  IF i > Len(items) THEN <<>>
  ELSE (IF i > 1 THEN <<44>> ELSE <<>>)
         \o (IF JsonOmitted(items[i]) THEN <<110, 117, 108, 108>> ELSE JsonText(items[i]))
         \o JsonItems(items, i + 1)

JsonMembers(pairs, i, first) ==
  IF i > Len(pairs) THEN <<>>
  ELSE IF JsonOmitted(pairs[i][2]) THEN JsonMembers(pairs, i + 1, first)
  ELSE (IF first THEN <<>> ELSE <<44>>)
         \o JsonQuote(pairs[i][1]) \o <<58>> \o JsonText(pairs[i][2])
         \o JsonMembers(pairs, i + 1, FALSE)

\* JSON.stringify(value): it throws, or returns undefined, or returns text.
JsonStringify(value) ==
  IF JsonThrows(value) THEN [threw |-> TRUE]
  ELSE IF JsonOmitted(value) THEN [threw |-> FALSE, text |-> Undefined]
  ELSE [threw |-> FALSE, text |-> JsonText(value)]

(***************************************************************************)
(* encryptJson(data, key)                                                  *)
(***************************************************************************)
\* encryptJson resolving the default key before it serializes.
encryptJson_KeyFirst(data, key, envValue, iv) ==
  IF ~Truthy(key) /\ getEncryptionKey(envValue).kind = "err"
  THEN Outcome(getEncryptionKey(envValue), Undefined, {"getEncryptionKey"})
  ELSE IF JsonStringify(data).threw
    THEN Outcome(Err(JsonSerializationFailedError("TypeError")), Undefined, {})
  ELSE encrypt(JsonStringify(data).text, key, envValue, iv)

encryptJson(data, key, envValue, iv) ==
  IF JsonStringify(data).threw
  THEN Outcome(Err(JsonSerializationFailedError("TypeError")), Undefined, {})
  ELSE encrypt(JsonStringify(data).text, key, envValue, iv)

(***************************************************************************)
(* JSON.parse(text).  A parse step answers [ok, value, next]: whether it   *)
(* read a value at its position, the value, and the position after it.     *)
(* Numbers of the model are integers: a fraction or an exponent ends the   *)
(* number, as no text of the model holds one.                              *)
(***************************************************************************)
ParseFail == [ok |-> FALSE]
Parsed(value, next) == [ok |-> TRUE, value |-> value, next |-> next]

IsDigit(c) == c >= 48 /\ c <= 57
IsHex(c) == IsDigit(c) \/ (c >= 97 /\ c <= 102) \/ (c >= 65 /\ c <= 70)
HexValue(c) == IF IsDigit(c) THEN c - 48 ELSE IF c >= 97 THEN c - 87 ELSE c - 55

\* Whether the literal lit stands at position i of text.
Matches(text, i, lit) ==
  /\ i + Len(lit) - 1 <= Len(text)
  /\ SubSeq(text, i, i + Len(lit) - 1) = lit

RECURSIVE SkipWhitespace(_, _)
SkipWhitespace(text, i) ==
  IF ByteAt(text, i) \in {32, 9, 10, 13} THEN SkipWhitespace(text, i + 1) ELSE i

RECURSIVE ParseDigits(_, _, _)
ParseDigits(text, i, n) ==
  IF IsDigit(ByteAt(text, i)) THEN ParseDigits(text, i + 1, (n * 10) + (text[i] - 48))
  ELSE Parsed(JsNumber(n), i)

\* "-"? then "0" or a digit 1-9 and more digits.
ParseNumber(text, i) ==
  LET neg == ByteAt(text, i) = 45
      j == IF neg THEN i + 1 ELSE i
      r == IF ByteAt(text, j) = 48 THEN Parsed(JsNumber(0), j + 1)
           ELSE IF IsDigit(ByteAt(text, j)) THEN ParseDigits(text, j, 0)
           ELSE ParseFail
  IN IF r.ok /\ neg THEN Parsed(JsNumber(-r.value.n), r.next) ELSE r

\* The characters of a string after its opening quote, up to the closing one.
RECURSIVE ParseChars(_, _, _)
ParseChars(text, i, acc) ==
  LET c == ByteAt(text, i)
      e == ByteAt(text, i + 1)
  IN
  IF c = 34 THEN Parsed(JsString(acc), i + 1)
  ELSE IF c < 32 THEN ParseFail
  ELSE IF c # 92 THEN ParseChars(text, i + 1, Append(acc, c))
  ELSE IF e \in {34, 92, 47} THEN ParseChars(text, i + 2, Append(acc, e))
  ELSE IF e = 98 THEN ParseChars(text, i + 2, Append(acc, 8))
  ELSE IF e = 102 THEN ParseChars(text, i + 2, Append(acc, 12))
  ELSE IF e = 110 THEN ParseChars(text, i + 2, Append(acc, 10))
  ELSE IF e = 114 THEN ParseChars(text, i + 2, Append(acc, 13))
  ELSE IF e = 116 THEN ParseChars(text, i + 2, Append(acc, 9))
  ELSE IF e = 117 /\ \A k \in 2..5 : IsHex(ByteAt(text, i + k))
    THEN ParseChars(text, i + 6,
                    Append(acc, (HexValue(text[i + 2]) * 4096) + (HexValue(text[i + 3]) * 256)
                                  + (HexValue(text[i + 4]) * 16) + HexValue(text[i + 5])))
  ELSE ParseFail

\* A later member of the same name replaces the value of the earlier one.
PutMember(pairs, name, value) ==
  IF \E i \in 1..Len(pairs) : pairs[i][1] = name
  THEN [i \in 1..Len(pairs) |-> IF pairs[i][1] = name THEN <<name, value>> ELSE pairs[i]]
  ELSE Append(pairs, <<name, value>>)

RECURSIVE ParseValue(_, _)
RECURSIVE ParseElements(_, _, _)
RECURSIVE ParseMembers(_, _, _)
ParseValue(text, at) ==
  LET i == SkipWhitespace(text, at)
      c == ByteAt(text, i)
  IN
  IF Matches(text, i, <<110, 117, 108, 108>>) THEN Parsed(JsNull, i + 4)
  ELSE IF Matches(text, i, <<116, 114, 117, 101>>) THEN Parsed(JsBoolean(TRUE), i + 4)
  ELSE IF Matches(text, i, <<102, 97, 108, 115, 101>>) THEN Parsed(JsBoolean(FALSE), i + 5)
  ELSE IF c = 34 THEN ParseChars(text, i + 1, <<>>)
  ELSE IF c = 45 \/ IsDigit(c) THEN ParseNumber(text, i)
  ELSE IF c = 91 THEN
    IF ByteAt(text, SkipWhitespace(text, i + 1)) = 93
    THEN Parsed(JsArray(<<>>), SkipWhitespace(text, i + 1) + 1)
    ELSE ParseElements(text, i + 1, <<>>)
  ELSE IF c = 123 THEN
    IF ByteAt(text, SkipWhitespace(text, i + 1)) = 125
    THEN Parsed(JsObject(<<>>), SkipWhitespace(text, i + 1) + 1)
    ELSE ParseMembers(text, i + 1, <<>>)
  ELSE ParseFail

ParseElements(text, at, items) ==
  LET r == ParseValue(text, at)
      j == SkipWhitespace(text, r.next)
  IN
  IF ~r.ok THEN ParseFail
  ELSE IF ByteAt(text, j) = 44 THEN ParseElements(text, j + 1, Append(items, r.value))
  ELSE IF ByteAt(text, j) = 93 THEN Parsed(JsArray(Append(items, r.value)), j + 1)
  ELSE ParseFail

ParseMembers(text, at, pairs) ==
  LET i == SkipWhitespace(text, at)
      name == IF ByteAt(text, i) = 34 THEN ParseChars(text, i + 1, <<>>) ELSE ParseFail
      colon == SkipWhitespace(text, name.next)
      r == ParseValue(text, colon + 1)
      j == SkipWhitespace(text, r.next)
  IN
  IF ~name.ok THEN ParseFail
  ELSE IF ByteAt(text, colon) # 58 THEN ParseFail
  ELSE IF ~r.ok THEN ParseFail
  ELSE IF ByteAt(text, j) = 44
    THEN ParseMembers(text, j + 1, PutMember(pairs, name.value.s, r.value))
  ELSE IF ByteAt(text, j) = 125
    THEN Parsed(JsObject(PutMember(pairs, name.value.s, r.value)), j + 1)
  ELSE ParseFail

\* JSON.parse(text): one value and nothing but whitespace after it, or a
\* SyntaxError.
JsonParse(text) ==
  LET r == ParseValue(text, 1) IN
  IF r.ok /\ SkipWhitespace(text, r.next) = Len(text) + 1
  THEN [threw |-> FALSE, value |-> r.value]
  ELSE [threw |-> TRUE]

(***************************************************************************)
(* decryptJson(encryptedData, key)                                         *)
(***************************************************************************)
\* decryptJson with decrypt inside its try block, every failure reported as a
\* parse failure.
decryptJsonParsed_WrapAll(decrypted) ==
  IF decrypted.result.kind = "err"
  THEN Outcome(Err(JsonParseFailedError("Error")), decrypted.keyBuffer, decrypted.steps)
  ELSE IF JsonParse(decrypted.result.value).threw
    THEN Outcome(Err(JsonParseFailedError("SyntaxError")), decrypted.keyBuffer,
                 decrypted.steps \cup {"JSON.parse"})
  ELSE Outcome(Ok(JsonParse(decrypted.result.value).value), decrypted.keyBuffer,
               decrypted.steps \cup {"JSON.parse"})

\* decryptJson returning ok(plaintextResult.value), the text unparsed.
decryptJsonParsed_Unparsed(decrypted) ==
  IF decrypted.result.kind = "err" THEN decrypted
  ELSE Outcome(Ok(JsString(decrypted.result.value)), decrypted.keyBuffer,
               decrypted.steps)

\* After decrypt returned plaintextResult in the outcome decrypted.
decryptJsonParsed(decrypted) ==
  IF decrypted.result.kind = "err" THEN decrypted
  ELSE IF JsonParse(decrypted.result.value).threw
    THEN Outcome(Err(JsonParseFailedError("SyntaxError")), decrypted.keyBuffer,
                 decrypted.steps \cup {"JSON.parse"})
  ELSE Outcome(Ok(JsonParse(decrypted.result.value).value), decrypted.keyBuffer,
               decrypted.steps \cup {"JSON.parse"})

decryptJson(encryptedData, key, envValue) ==
  decryptJsonParsed(decrypt(encryptedData, key, envValue))

(***************************************************************************)
(* The earlier module, crypto/index.ts: the same cipher steps, every error *)
(* a plain Error told apart by its message only, and a getEncryptionKey    *)
(* that throws.                                                            *)
(***************************************************************************)
PlainError(message) == [type |-> "Error", message |-> message]

\* getEncryptionKey of crypto/index.ts: the key, or a thrown Error.
Index_getEncryptionKey(envValue) ==
  IF ~Truthy(envValue) THEN Throw("Error") ELSE Ok(envValue)

\* validateEncryptedData of crypto/index.ts: one try block around the three
\* decodings, its catch answering for whichever of them threw.
Index_validateEncryptedData(data) ==
  IF BufferFromThrows(data.iv) THEN Err(PlainError("Invalid encrypted data format"))
  ELSE IF Len(Base64Decode(data.iv)) # IV_LENGTH
    THEN Err(PlainError("Invalid IV length"))
  ELSE IF BufferFromThrows(data.tag) THEN Err(PlainError("Invalid encrypted data format"))
  ELSE IF Len(Base64Decode(data.tag)) # TAG_LENGTH
    THEN Err(PlainError("Invalid authentication tag length"))
  ELSE IF BufferFromThrows(data.ciphertext)
    THEN Err(PlainError("Invalid encrypted data format"))
  ELSE Ok(Undefined)

\* encrypt of crypto/index.ts; "key || getEncryptionKey()" lets the throw of
\* getEncryptionKey out of encrypt.
Index_encrypt(plaintext, key, envValue, iv) ==
  IF plaintext = Undefined THEN Outcome(Throw("TypeError"), Undefined, {})
  ELSE IF Len(Utf8Encode(plaintext)) > MAX_PLAINTEXT_SIZE
    THEN Outcome(Err(PlainError("Plaintext exceeds maximum allowed size")), Undefined, {})
  ELSE IF ~Truthy(key) /\ Index_getEncryptionKey(envValue).kind = "throw"
    THEN Outcome(Index_getEncryptionKey(envValue), Undefined, {"getEncryptionKey"})
  ELSE LET keyBuffer == Base64Decode(IF Truthy(key) THEN key
                                     ELSE Index_getEncryptionKey(envValue).value)
           steps == IF Truthy(key) THEN {"keyBuffer"} ELSE {"getEncryptionKey", "keyBuffer"}
       IN IF Len(keyBuffer) # KEY_LENGTH
          THEN Outcome(Err(PlainError("Encryption key must be 32 bytes")),
                       FillZero(keyBuffer), steps)
          ELSE IF iv = Undefined
          THEN Outcome(Err(PlainError("randomBytes")), FillZero(keyBuffer),
                       steps \cup {"randomBytes"})
          ELSE Outcome(Ok([ciphertext |->
                             CipherTextBase64(GcmEncrypt(keyBuffer, iv,
                                                         Utf8Encode(plaintext)).ciphertext),
                           iv |-> Base64Encode(iv),
                           tag |-> Base64Encode(GcmEncrypt(keyBuffer, iv,
                                                           Utf8Encode(plaintext)).tag)]),
                       FillZero(keyBuffer),
                       steps \cup {"randomBytes", "createCipheriv"})

\* decrypt of crypto/index.ts with "key ?? getEncryptionKey()": the empty
\* string is a key.
Index_decrypt_Nullish(encryptedData, key, envValue) ==
  IF Index_validateEncryptedData(encryptedData).kind = "err"
  THEN Outcome(Index_validateEncryptedData(encryptedData), Undefined, {})
  ELSE IF key = Undefined /\ Index_getEncryptionKey(envValue).kind = "throw"
    THEN Outcome(Index_getEncryptionKey(envValue), Undefined, {"getEncryptionKey"})
  ELSE LET keyBuffer == Base64Decode(IF key # Undefined THEN key
                                     ELSE Index_getEncryptionKey(envValue).value)
           steps == IF key # Undefined THEN {"keyBuffer"} ELSE {"getEncryptionKey", "keyBuffer"}
           opened == GcmDecrypt(keyBuffer, Base64Decode(encryptedData.iv),
                                Base64Decode(encryptedData.tag),
                                Base64Decode(encryptedData.ciphertext))
       IN IF Len(keyBuffer) # KEY_LENGTH
          THEN Outcome(Err(PlainError("Encryption key must be 32 bytes")),
                       FillZero(keyBuffer), steps)
          ELSE Outcome(IF opened.threw THEN Err(PlainError("decipher"))
                       ELSE Ok(Utf8Decode(opened.plainBytes)),
                       FillZero(keyBuffer), steps \cup {"createDecipheriv"})

\* decrypt of crypto/index.ts; the catch block returns the Error the decipher
\* threw.
Index_decrypt(encryptedData, key, envValue) ==
  IF Index_validateEncryptedData(encryptedData).kind = "err"
  THEN Outcome(Index_validateEncryptedData(encryptedData), Undefined, {})
  ELSE IF ~Truthy(key) /\ Index_getEncryptionKey(envValue).kind = "throw"
    THEN Outcome(Index_getEncryptionKey(envValue), Undefined, {"getEncryptionKey"})
  ELSE LET keyBuffer == Base64Decode(IF Truthy(key) THEN key
                                     ELSE Index_getEncryptionKey(envValue).value)
           steps == IF Truthy(key) THEN {"keyBuffer"} ELSE {"getEncryptionKey", "keyBuffer"}
           opened == GcmDecrypt(keyBuffer, Base64Decode(encryptedData.iv),
                                Base64Decode(encryptedData.tag),
                                Base64Decode(encryptedData.ciphertext))
       IN IF Len(keyBuffer) # KEY_LENGTH
          THEN Outcome(Err(PlainError("Encryption key must be 32 bytes")),
                       FillZero(keyBuffer), steps)
          ELSE Outcome(IF opened.threw THEN Err(PlainError("decipher"))
                       ELSE Ok(Utf8Decode(opened.plainBytes)),
                       FillZero(keyBuffer), steps \cup {"createDecipheriv"})

(***************************************************************************)
(* The inputs callers pass.                                                *)
(***************************************************************************)
\* Bounds of the model.
NumKeys == 2
NumIvs == 2
MaxPlainLen == 2

\* Bytes as randomBytes(n) may return them; a names the draw.
RandomBytes(n, a) == AsSeq([i \in 1..n |-> ((a * 61) + (i * 17) + (a * i * 5)) % 256])

\* Keys as generateEncryptionKey makes them.
ValidKeys == {generateEncryptionKey(RandomBytes(KEY_LENGTH, a)) : a \in 1..NumKeys}

\* A key text without its "=" padding: it decodes to the same 32 bytes.
Unpadded(str) == SelectSeq(str, IsBase64Char)
UnpaddedKeys == {Unpadded(k) : k \in {generateEncryptionKey(RandomBytes(KEY_LENGTH, 1))}}

\* Keys of 31 and 33 bytes, and the text "invalid-key" of crypto.test.ts.
ShortKey == Base64Encode(RandomBytes(KEY_LENGTH - 1, 1))
LongKey == Base64Encode(RandomBytes(KEY_LENGTH + 1, 1))
InvalidKeyText == <<105, 110, 118, 97, 108, 105, 100, 45, 107, 101, 121>>

KeyArgs ==
  {Undefined, EmptyString, ShortKey, LongKey, InvalidKeyText} \cup ValidKeys \cup UnpaddedKeys

EnvValues == {Undefined, EmptyString, ShortKey} \cup ValidKeys

\* The draws of IVs are other draws than those of the keys.
RandomIvs == {RandomBytes(IV_LENGTH, 10 + a) : a \in 1..NumIvs}

\* "1", e-acute (2 bytes), the euro sign (3 bytes), a surrogate pair
\* (4 bytes) and a high surrogate with no low one after it.
SampleText == <<49, 233, 8364, 55357, 56848, 55357>>

\* The substrings of SampleText of at most MaxPlainLen code units.
Plaintexts ==
  {SubSeq(SampleText, w[1], w[1] + w[2] - 1) :
     w \in {x \in (1..Len(SampleText)) \X (0..MaxPlainLen) :
              x[1] + x[2] - 1 <= Len(SampleText)}}

\* JSON values callers encrypt: plain data, values JSON.stringify returns
\* undefined for, and values it throws on.
JsonValues ==
  << JsNull, JsNaN, JsBoolean(TRUE), JsNumber(0), JsNumber(-17), JsString(<<>>),
     JsString(<<34, 233, 55357>>), JsArray(<<>>),
     JsArray(<<JsNumber(1), JsUndefined, JsString(<<97>>)>>),
     JsObject(<<>>),
     JsObject(<< <<<<97>>, JsNumber(1)>>, <<<<98>>, JsFunction>>,
                 <<<<99>>, JsArray(<<JsBoolean(FALSE)>>)>> >>),
     JsObject(<< <<<<97>>, JsNumber(1)>>,
                 <<<<98>>, JsArray(<<JsString(<<120>>), JsString(<<121>>)>>)>> >>),
     JsArray(<<JsObject(<< <<<<107, 34>>, JsNull>> >>), JsNumber(120),
               JsString(<<92, 10, 1>>)>>),
     JsUndefined, JsFunction, JsSymbol, JsBigInt, JsCyclic, JsArray(<<JsCyclic>>) >>

\* Keys the JSON operations are called with.
JsonKeys == {Undefined, EmptyString, ShortKey, Base64Encode(RandomBytes(KEY_LENGTH, 1))}

(***************************************************************************)
(* Envelopes callers hand to decrypt besides the ones encrypt returned.    *)
(***************************************************************************)
\* str with its "+" written "-" and its "/" written "_" (the URL-safe
\* alphabet Buffer.from also accepts).
UrlSafe(str) ==
  AsSeq([i \in 1..Len(str) |->
           IF str[i] = 43 THEN 45 ELSE IF str[i] = 47 THEN 95 ELSE str[i]])

\* str with the bits of its last character that belong to no byte changed:
\* the last character of a group of two carries four such bits, of a group
\* of three two.
SpareBits(str) ==
  LET body == Unpadded(str)
      n == Len(body)
      step == IF n % 4 = 2 THEN 1 ELSE IF n % 4 = 3 THEN 1 ELSE 0
      v == Unbase64(body[n])
      w == IF step = 0 THEN v
           ELSE IF n % 4 = 2 THEN (16 * (v \div 16)) + ((v + 1) % 16)
           ELSE (4 * (v \div 4)) + ((v + 1) % 4)
  IN IF n = 0 THEN str
     ELSE SubSeq(str, 1, n - 1) \o <<Base64Char(w)>> \o SubSeq(str, n + 1, Len(str))

\* Other texts of one field that Buffer.from decodes to the same bytes.
SameBytesTexts(str) ==
  { str \o <<61>>, str \o <<10>>, Unpadded(str), UrlSafe(str), SpareBits(str) } \ {str}

\* The envelopes that differ from e in the text of one field and decode to
\* the bytes e decodes to.
TextVariants(e) ==
  {[e EXCEPT !.ciphertext = t] : t \in SameBytesTexts(e.ciphertext)}
    \cup {[e EXCEPT !.iv = t] : t \in SameBytesTexts(e.iv)}
    \cup {[e EXCEPT !.tag = t] : t \in SameBytesTexts(e.tag)}

ZeroBytes(n) == AsSeq([i \in 1..n |-> 0])

\* "not valid base64!!!@#$%"
NotBase64Text ==
  <<110, 111, 116, 32, 118, 97, 108, 105, 100, 32, 98, 97, 115, 101, 54, 52,
    33, 33, 33, 64, 35, 36, 37>>

\* An envelope no encrypt call returned, with fields of the right lengths.
ForgedEnvelope ==
  [ciphertext |-> Base64Encode(<<1, 2, 3>>),
   iv |-> Base64Encode(ZeroBytes(IV_LENGTH)),
   tag |-> Base64Encode(ZeroBytes(TAG_LENGTH))]

MalformedEnvelopes ==
  { ForgedEnvelope,
    [ForgedEnvelope EXCEPT !.ciphertext = NotBase64Text],
    [ForgedEnvelope EXCEPT !.iv = Base64Encode(ZeroBytes(8))],
    [ForgedEnvelope EXCEPT !.tag = Base64Encode(ZeroBytes(8))],
    [ForgedEnvelope EXCEPT !.iv = Base64Encode(ZeroBytes(8)),
                           !.tag = Base64Encode(ZeroBytes(8))],
    [ForgedEnvelope EXCEPT !.iv = EmptyString],
    [ForgedEnvelope EXCEPT !.iv = Base64Encode(ZeroBytes(TAG_LENGTH))],
    [ForgedEnvelope EXCEPT !.tag = Base64Encode(ZeroBytes(TAG_LENGTH + 1))],
    [ForgedEnvelope EXCEPT !.iv = NotBase64Text],
    [ForgedEnvelope EXCEPT !.iv = Undefined],
    [ForgedEnvelope EXCEPT !.tag = Undefined],
    [ForgedEnvelope EXCEPT !.ciphertext = Undefined],
    [ForgedEnvelope EXCEPT !.tag = Base64Encode(ZeroBytes(8)),
                           !.ciphertext = Undefined],
    [ForgedEnvelope EXCEPT !.iv = Undefined,
                           !.tag = Base64Encode(ZeroBytes(8))],
    [ForgedEnvelope EXCEPT !.tag = Base64Encode(ZeroBytes(8)),
                           !.ciphertext = NotBase64Text],
    [ForgedEnvelope EXCEPT !.tag = Undefined, !.ciphertext = Undefined] }

(***************************************************************************)
(* The state machine.  env is process.env.ENCRYPTION_KEY.  A caller makes  *)
(* one call at a time: call holds the operation and its arguments (with    *)
(* the environment value the call read), ret what it came back with, and   *)
(* produced what the caller keeps of its latest successful encryption.     *)
(* A caller encrypts, then decrypts what it got or a variant of it, then   *)
(* returns to idle; or it decrypts an envelope of its own making.          *)
(***************************************************************************)
NoCall == [op |-> "none"]
NoOutcome == Outcome([kind |-> "none"], Undefined, {})
NoProduct == [made |-> FALSE]

Product(op, plaintext, key, envValue, outcome) ==
  IF outcome.result.kind = "ok"
  THEN [made |-> TRUE, op |-> op, plaintext |-> plaintext, key |-> key,
        env |-> envValue, envelope |-> outcome.result.value]
  ELSE NoProduct

\* What the caller keeps of a successful encryptJson: the data as well.
JsonProduct(data, key, envValue, outcome) ==
  IF outcome.result.kind = "ok"
  THEN [made |-> TRUE, op |-> "encryptJson", data |-> data,
        plaintext |-> JsonStringify(data).text, key |-> key,
        env |-> envValue, envelope |-> outcome.result.value]
  ELSE NoProduct

Idle == call.op = "none"
HoldsProduct == call.op \in {"encrypt", "encryptJson"} /\ produced.made

Init ==
  /\ env \in EnvValues
  /\ call = NoCall
  /\ ret = NoOutcome
  /\ produced = NoProduct

\* process.env.ENCRYPTION_KEY is set, changed or deleted between calls.
SetEnv ==
  /\ Idle
  /\ \E v \in EnvValues \ {env} : env' = v
  /\ UNCHANGED <<call, ret, produced>>

\* encrypt(plaintext, key) with randomBytes returning iv.
EncryptWith(plaintexts, keys, ivs) ==
  /\ Idle
  /\ \E plaintext \in plaintexts, key \in keys, iv \in ivs :
       \E outcome \in {encrypt(plaintext, key, env, iv)} :
         /\ call' = [op |-> "encrypt", plaintext |-> plaintext, key |-> key,
                     env |-> env, iv |-> iv]
         /\ ret' = outcome
         /\ produced' = Product("encrypt", plaintext, key, env, outcome)
  /\ UNCHANGED env

Encrypt == EncryptWith(Plaintexts, KeyArgs, RandomIvs)

\* encryptJson(data, key) with randomBytes returning iv.
EncryptJson ==
  /\ Idle
  /\ \E d \in 1..Len(JsonValues), key \in JsonKeys, iv \in RandomIvs :
       \E data \in {JsonValues[d]}, outcome \in {encryptJson(JsonValues[d], key, env, iv)} :
         /\ call' = [op |-> "encryptJson", data |-> data, key |-> key,
                     env |-> env, iv |-> iv]
         /\ ret' = outcome
         /\ produced' = JsonProduct(data, key, env, outcome)
  /\ UNCHANGED env

\* decrypt(encryptedData, key)
DecryptCall(encryptedData, key) ==
  /\ call' = [op |-> "decrypt", encryptedData |-> encryptedData, key |-> key,
              env |-> env]
  /\ ret' = decrypt(encryptedData, key, env)
  /\ UNCHANGED <<env, produced>>

\* The caller decrypts the envelope it got, with a key of its choice.
DecryptProduced ==
  /\ HoldsProduct
  /\ \E key \in KeyArgs : DecryptCall(produced.envelope, key)

\* The caller decrypts, with the key it encrypted with, an envelope whose
\* text differs from the one it got.
DecryptTextVariant ==
  /\ HoldsProduct
  /\ \E e \in TextVariants(produced.envelope) : DecryptCall(e, produced.key)

\* The caller decrypts an envelope no encryption returned.
DecryptMalformed ==
  /\ Idle
  /\ \E e \in MalformedEnvelopes, key \in KeyArgs : DecryptCall(e, key)

\* decryptJson(encryptedData, key)
DecryptJsonCall(encryptedData, key) ==
  /\ call' = [op |-> "decryptJson", encryptedData |-> encryptedData,
              key |-> key, env |-> env]
  /\ ret' = decryptJson(encryptedData, key, env)
  /\ UNCHANGED <<env, produced>>

\* The caller hands the envelope it got to decryptJson, with a key of its
\* choice.
DecryptJson ==
  /\ HoldsProduct
  /\ \E key \in {produced.key} \cup JsonKeys : DecryptJsonCall(produced.envelope, key)

\* The caller hands decryptJson an envelope no encryption returned.
DecryptJsonMalformed ==
  /\ Idle
  /\ \E e \in MalformedEnvelopes, key \in JsonKeys : DecryptJsonCall(e, key)

\* The caller is done with what the call returned.
Return ==
  /\ ~Idle
  /\ call' = NoCall
  /\ ret' = NoOutcome
  /\ produced' = NoProduct
  /\ UNCHANGED env

Next ==
  \/ SetEnv
  \/ Encrypt
  \/ EncryptJson
  \/ DecryptProduced
  \/ DecryptTextVariant
  \/ DecryptMalformed
  \/ DecryptJson
  \/ DecryptJsonMalformed
  \/ Return

Spec == Init /\ [][Next]_vars

(***************************************************************************)
(* The same callers with a cipher that can fail: randomBytes throws when   *)
(* the system has no entropy to give, and encrypt wraps what it threw.     *)
(***************************************************************************)
EncryptFault == EncryptWith(Plaintexts, KeyArgs, {Undefined})

NextFault ==
  \/ SetEnv
  \/ Encrypt
  \/ EncryptFault
  \/ DecryptProduced
  \/ DecryptMalformed
  \/ Return

SpecFault == Init /\ [][NextFault]_vars

(***************************************************************************)
(* Tampering: the caller decodes one field of the envelope it got, changes *)
(* bits of one byte, encodes the field again and decrypts with the key it  *)
(* encrypted with.                                                         *)
(***************************************************************************)
\* 2^b
Pow2(b) == IF b = 0 THEN 1 ELSE IF b = 1 THEN 2 ELSE IF b = 2 THEN 4
           ELSE IF b = 3 THEN 8 ELSE IF b = 4 THEN 16 ELSE IF b = 5 THEN 32
           ELSE IF b = 6 THEN 64 ELSE 128

\* buffer[i] = buffer[i] ^ mask, for the mask of one bit b or, with b = 8,
\* the mask 0xff.
XorByte(byte, b) ==
  IF b = 8 THEN 255 - byte
  ELSE IF (byte \div Pow2(b)) % 2 = 1 THEN byte - Pow2(b) ELSE byte + Pow2(b)

TamperedBytes(bytes, i, b) == [bytes EXCEPT ![i] = XorByte(bytes[i], b)]

TamperedField(str, i, b) == Base64Encode(TamperedBytes(Base64Decode(str), i, b))

TamperPlaintexts == {p \in Plaintexts : Len(p) \in {1, MaxPlainLen}}

EncryptForTamper == EncryptWith(TamperPlaintexts, ValidKeys, RandomIvs)

DecryptTampered ==
  /\ HoldsProduct
  /\ \E field \in {"ciphertext", "iv", "tag"}, b \in 0..8 :
       \E i \in 1..Len(Base64Decode(produced.envelope[field])) :
         DecryptCall([produced.envelope EXCEPT
                        ![field] = TamperedField(produced.envelope[field], i, b)],
                     produced.key)

\* The caller decrypts the envelope it got with another valid key.
DecryptWrongKey ==
  /\ HoldsProduct
  /\ \E key \in ValidKeys \ {produced.key} : DecryptCall(produced.envelope, key)

\* A ciphertext that lost its last byte or gained one on the way.
CorruptedTexts(str) ==
  { Base64Encode(SubSeq(Base64Decode(str), 1, Len(Base64Decode(str)) - 1)),
    Base64Encode(Base64Decode(str) \o <<0>>) }

DecryptCorrupted ==
  /\ HoldsProduct
  /\ \E t \in CorruptedTexts(produced.envelope.ciphertext) :
       DecryptCall([produced.envelope EXCEPT !.ciphertext = t], produced.key)

\* ENCRYPTION_KEY is not set.
InitUnset ==
  /\ env = Undefined
  /\ call = NoCall
  /\ ret = NoOutcome
  /\ produced = NoProduct

NextTamper ==
  \/ EncryptForTamper
  \/ DecryptTampered
  \/ DecryptWrongKey
  \/ DecryptCorrupted
  \/ Return

SpecTamper == InitUnset /\ [][NextTamper]_vars

(***************************************************************************)
(* Plaintexts around the size limit: count times one character, then a     *)
(* tail.  "x" takes one byte in UTF-8, U+00E9 two, U+20AC three.           *)
(***************************************************************************)
MaxSmallCount == 8

Repeat(unit, count) == AsSeq([i \in 1..count |-> unit])

SizedPlaintext(unit, count, tail) == Repeat(unit, count) \o tail

SizeKeys == {Undefined, ShortKey, Base64Encode(RandomBytes(KEY_LENGTH, 1))}

\* <<unit, count, tail>> of the plaintexts at the limit.
LimitPlaintexts ==
  { <<120, MAX_PLAINTEXT_SIZE - 1, <<>> >>,
    <<120, MAX_PLAINTEXT_SIZE, <<>> >>,
    <<120, MAX_PLAINTEXT_SIZE + 1, <<>> >>,
    <<233, MAX_PLAINTEXT_SIZE \div 2, <<>> >>,
    <<233, MAX_PLAINTEXT_SIZE \div 2, <<120>> >>,
    <<8364, MAX_PLAINTEXT_SIZE \div 3, <<120>> >>,
    <<8364, (MAX_PLAINTEXT_SIZE \div 3) + 1, <<>> >> }

\* <<unit, count, tail, key>>
SizedInputs ==
  ({120, 233, 8364} \X (0..MaxSmallCount) \X {<<>>, <<120>>} \X SizeKeys)
    \cup {<<t[1], t[2], t[3], key>> : t \in LimitPlaintexts, key \in SizeKeys}

\* What the state keeps of the outcome of a call at the limit: of an
\* envelope's ciphertext its length.
Abridged(outcome) ==
  IF outcome.result.kind = "ok"
  THEN [outcome EXCEPT !.result.value =
          [iv |-> @.iv, tag |-> @.tag, ciphertextLength |-> Len(@.ciphertext)]]
  ELSE outcome

\* encrypt(plaintext, key) for a plaintext the state holds as the character,
\* the count and the tail it is made of.
EncryptSized ==
  /\ Idle
  /\ \E input \in SizedInputs, iv \in {RandomBytes(IV_LENGTH, 11)} :
       /\ call' = [op |-> "encrypt", unit |-> input[1], count |-> input[2],
                   tail |-> input[3], key |-> input[4], env |-> env, iv |-> iv]
       /\ ret' = Abridged(encrypt(SizedPlaintext(input[1], input[2], input[3]),
                                  input[4], env, iv))
  /\ UNCHANGED <<env, produced>>

\* The array of one string, count times the character unit and then tail;
\* with cyclic, the array is also an element of itself.
SizedJson(unit, count, tail, cyclic) ==
  JsArray(<<JsString(Repeat(unit, count) \o tail)>>
            \o (IF cyclic THEN <<JsCyclic>> ELSE <<>>))

\* encryptJson(data, key) for data the state holds as what it is made of:
\* small arrays with every key, and arrays whose JSON text has 65536 bytes or
\* just above ("x" is written in one byte, U+00E9 and the escaped quote in
\* two).
EncryptJsonSized ==
  /\ Idle
  /\ \E input \in
         ({120, 34, 8364} \X (0..MaxSmallCount) \X {<<>>, <<233>>} \X BOOLEAN \X SizeKeys)
           \cup {<<t[1], t[2], tail, FALSE, Base64Encode(RandomBytes(KEY_LENGTH, 1))>> :
                   t \in {<<120, MAX_PLAINTEXT_SIZE - 4>>,
                          <<233, (MAX_PLAINTEXT_SIZE - 4) \div 2>>,
                          <<34, (MAX_PLAINTEXT_SIZE - 4) \div 2>>},
                   tail \in {<<>>, <<120>>}}
           \cup {<<120, MAX_PLAINTEXT_SIZE - 4, <<120>>, FALSE, Undefined>>,
                 <<120, MAX_PLAINTEXT_SIZE - 4, <<120>>, TRUE, Undefined>>},
        iv \in {RandomBytes(IV_LENGTH, 11)} :
       /\ call' = [op |-> "encryptJson", unit |-> input[1], count |-> input[2],
                   tail |-> input[3], cyclic |-> input[4],
                   key |-> input[5], env |-> env, iv |-> iv]
       /\ ret' = Abridged(encryptJson(SizedJson(input[1], input[2], input[3], input[4]),
                                      input[5], env, iv))
  /\ UNCHANGED <<env, produced>>

NextSize ==
  \/ EncryptSized
  \/ EncryptJsonSized
  \/ Return

SpecSize == InitUnset /\ [][NextSize]_vars

(***************************************************************************)
(* A caller that keeps an envelope over several calls while                *)
(* process.env.ENCRYPTION_KEY changes: it encrypts without a key argument, *)
(* then decrypts the envelope any number of times, each call noting how    *)
(* the call before it ended.                                               *)
(***************************************************************************)
\* process.env.ENCRYPTION_KEY is set, changed or deleted at any time.
SetEnvAnytime ==
  /\ \E v \in EnvValues \ {env} : env' = v
  /\ UNCHANGED <<call, ret, produced>>

EncryptDefault == EncryptWith(Plaintexts, {Undefined}, RandomIvs)

\* decrypt reading ENCRYPTION_KEY once, when the module first needs it, and
\* keeping that value: here the value the envelope was made under.
DecryptCallAfter_Cached(encryptedData, key) ==
  /\ call' = [op |-> "decrypt", encryptedData |-> encryptedData, key |-> key,
              env |-> env,
              previous |-> IF ret.result.kind = "err" THEN ret.result.error.type
                           ELSE ret.result.kind]
  /\ ret' = decrypt(encryptedData, key, produced.env)
  /\ UNCHANGED <<env, produced>>

\* decrypt(encryptedData, key), the call record noting the outcome of the
\* call before.
DecryptCallAfter(encryptedData, key) ==
  /\ call' = [op |-> "decrypt", encryptedData |-> encryptedData, key |-> key,
              env |-> env,
              previous |-> IF ret.result.kind = "err" THEN ret.result.error.type
                           ELSE ret.result.kind]
  /\ ret' = decrypt(encryptedData, key, env)
  /\ UNCHANGED <<env, produced>>

DecryptDefault ==
  /\ produced.made
  /\ DecryptCallAfter(produced.envelope, Undefined)

NextEnv ==
  \/ SetEnvAnytime
  \/ EncryptDefault
  \/ DecryptDefault
  \/ Return

SpecEnv == Init /\ [][NextEnv]_vars

(***************************************************************************)
(* Calls in flight at the same time.  A call goes through its steps: it    *)
(* returns early or resolves its key ("start"), decodes the key into a     *)
(* buffer of its own ("resolved"), checks the length and runs the cipher   *)
(* on that buffer ("decoded"), and zeroes the buffer ("ciphered"); the     *)
(* steps of the calls interleave in any order.                             *)
(***************************************************************************)
NumCalls == 2

\* The envelope of an earlier encrypt("1\u00e9", key 1).
EarlierEnvelope ==
  encrypt(<<49, 233>>, Base64Encode(RandomBytes(KEY_LENGTH, 1)), Undefined,
          RandomBytes(IV_LENGTH, 10)).result.value

\* The calls made: encrypt with a valid key, with the default key and with
\* a key of 31 bytes, decrypt with the valid key and with another one.
PairCalls ==
  << [op |-> "encrypt", plaintext |-> <<49, 233>>,
      key |-> Base64Encode(RandomBytes(KEY_LENGTH, 1)), iv |-> RandomBytes(IV_LENGTH, 11)],
     [op |-> "encrypt", plaintext |-> <<8364>>, key |-> Undefined,
      iv |-> RandomBytes(IV_LENGTH, 12)],
     [op |-> "encrypt", plaintext |-> <<8364>>, key |-> ShortKey,
      iv |-> RandomBytes(IV_LENGTH, 11)],
     [op |-> "decrypt", encryptedData |-> EarlierEnvelope,
      key |-> Base64Encode(RandomBytes(KEY_LENGTH, 1))],
     [op |-> "decrypt", encryptedData |-> EarlierEnvelope,
      key |-> Base64Encode(RandomBytes(KEY_LENGTH, 2))] >>

\* What the call c returns when it runs alone under the environment value
\* envValue.
AloneOutcome(c, envValue) ==
  IF c.op = "encrypt" THEN encrypt(c.plaintext, c.key, envValue, c.iv)
  ELSE decrypt(c.encryptedData, c.key, envValue)

\* The call c after its next step, taken while ENCRYPTION_KEY is envValue.
StepOf(c, envValue) ==
  IF c.pc = "start"
  THEN IF "keyBuffer" \notin AloneOutcome(c.args, envValue).steps
       THEN [c EXCEPT !.pc = "done", !.env = envValue,
                      !.result = AloneOutcome(c.args, envValue).result]
       ELSE [c EXCEPT !.pc = "resolved", !.env = envValue,
                      !.encryptionKey = IF Truthy(c.args.key) THEN c.args.key
                                        ELSE getEncryptionKey(envValue).value]
  ELSE IF c.pc = "resolved"
    THEN [c EXCEPT !.pc = "decoded", !.keyBuffer = Base64Decode(c.encryptionKey)]
  ELSE IF c.pc = "decoded"
    THEN [c EXCEPT !.pc = "ciphered",
                   !.result =
                     IF c.args.op = "encrypt"
                     THEN encryptWithKeyBuffer(Utf8Encode(c.args.plaintext),
                                               c.keyBuffer, c.args.iv, {}).result
                     ELSE decryptWithKeyBuffer(c.args.encryptedData,
                                               c.keyBuffer, {}).result]
  ELSE [c EXCEPT !.pc = "done", !.keyBuffer = FillZero(c.keyBuffer)]

\* The calls with one Buffer per key string, shared by the calls that use
\* the key: zeroing it zeroes it for all of them.
StepCalls_SharedBuffer(calls, i, envValue) ==
  AsSeq([j \in 1..Len(calls) |->
    IF j = i THEN StepOf(calls[i], envValue)
    ELSE IF calls[i].pc = "ciphered" /\ calls[j].pc \in {"decoded", "ciphered"}
      THEN [calls[j] EXCEPT !.overlapped = TRUE,
                            !.keyBuffer = IF calls[j].encryptionKey = calls[i].encryptionKey
                                          THEN FillZero(@) ELSE @]
    ELSE calls[j]])

\* The calls after call i took its next step: the step changes what belongs
\* to call i only.  A call that holds a decoded key while call i zeroes its
\* own is marked as overlapped.
StepCalls(calls, i, envValue) ==
  AsSeq([j \in 1..Len(calls) |->
    IF j = i THEN StepOf(calls[i], envValue)
    ELSE IF calls[i].pc = "ciphered" /\ calls[j].pc \in {"decoded", "ciphered"}
      THEN [calls[j] EXCEPT !.overlapped = TRUE]
    ELSE calls[j]])

\* The calls start together; which of them is written first makes no
\* difference, so they are listed in the order of PairCalls.
StartPair ==
  /\ Idle
  /\ \E kinds \in [1..NumCalls -> 1..Len(PairCalls)] :
       /\ \A i \in 1..(NumCalls - 1) : kinds[i] <= kinds[i + 1]
       /\ call' = [op |-> "pair",
                   calls |-> AsSeq([i \in 1..NumCalls |->
                     [args |-> PairCalls[kinds[i]], pc |-> "start", env |-> Undefined,
                      encryptionKey |-> Undefined, keyBuffer |-> Undefined,
                      result |-> [kind |-> "none"], overlapped |-> FALSE]])]
  /\ UNCHANGED <<env, ret, produced>>

StepCall ==
  /\ call.op = "pair"
  /\ \E i \in 1..Len(call.calls) :
       /\ call.calls[i].pc # "done"
       /\ call' = [call EXCEPT !.calls = StepCalls(call.calls, i, env)]
  /\ UNCHANGED <<env, ret, produced>>

NextPair ==
  \/ StartPair
  \/ StepCall
  \/ Return

SpecPair == Init /\ [][NextPair]_vars

(***************************************************************************)
(* What a call leaves of the values it was given.  A caller keeps its key  *)
(* string and its envelope over several calls and uses, in each call, what *)
(* the call before left of them.                                           *)
(***************************************************************************)
\* A call whose keyBuffer.fill(0) writes through to the string the buffer
\* was decoded from: the key argument, or ENCRYPTION_KEY when none was given.
FrameAfter_Scrubbed(key, encryptedData, envValue, outcome) ==
  [key |-> IF outcome.keyBuffer # Undefined /\ Truthy(key)
           THEN Base64Encode(outcome.keyBuffer) ELSE key,
   encryptedData |-> encryptedData,
   env |-> IF outcome.keyBuffer # Undefined /\ ~Truthy(key)
           THEN Base64Encode(outcome.keyBuffer) ELSE envValue]

\* The key string, the envelope and process.env.ENCRYPTION_KEY after a call:
\* Buffer.from(encryptionKey, "base64") is a buffer of the call's own, the
\* only value the call writes to, and the envelope and the environment are
\* only read.
FrameAfter(key, encryptedData, envValue, outcome) ==
  [key |-> key, encryptedData |-> encryptedData, env |-> envValue]

\* encrypt(plaintext, key), the caller keeping the key as the call left it.
EncryptKept ==
  /\ Idle
  /\ \E plaintext \in Plaintexts, key \in KeyArgs, iv \in RandomIvs :
       \E outcome \in {encrypt(plaintext, key, env, iv)} :
         \E after \in {FrameAfter(key, Undefined, env, outcome)} :
           /\ call' = [op |-> "encrypt", plaintext |-> plaintext, key |-> key,
                       encryptedData |-> Undefined, env |-> env, iv |-> iv,
                       previous |-> "none", after |-> after]
           /\ ret' = outcome
           /\ produced' = Product("encrypt", plaintext, after.key, after.env, outcome)
           /\ env' = after.env

\* decrypt(encryptedData, key) of the envelope the caller keeps, with the key
\* it keeps or with a short one, the caller keeping both as the call left
\* them.
DecryptKept ==
  /\ produced.made
  /\ \E key \in {produced.key, ShortKey} :
       \E outcome \in {decrypt(produced.envelope, key, env)} :
         \E after \in {FrameAfter(key, produced.envelope, env, outcome)} :
           /\ call' = [op |-> "decrypt", plaintext |-> produced.plaintext, key |-> key,
                       encryptedData |-> produced.envelope, env |-> env,
                       iv |-> Undefined,
                       previous |-> IF ret.result.kind = "ok" THEN call.op ELSE "failed",
                       after |-> after]
           /\ ret' = outcome
           /\ produced' = [produced EXCEPT
                             !.key = IF key = produced.key THEN after.key ELSE @,
                             !.env = after.env,
                             !.envelope = after.encryptedData]
           /\ env' = after.env

NextFrame ==
  \/ SetEnv
  \/ EncryptKept
  \/ DecryptKept
  \/ Return

SpecFrame == Init /\ [][NextFrame]_vars

(***************************************************************************)
(* A caller that makes every call to both modules, lib/crypto.ts and       *)
(* crypto/index.ts, with the same arguments, the same ENCRYPTION_KEY and   *)
(* the same bytes from randomBytes; the call record keeps what the earlier *)
(* module did.  The plaintext is count times the character unit.           *)
(***************************************************************************)
EncryptBoth ==
  /\ Idle
  /\ \E input \in
         ({49, 233, 8364, 55357} \X (0..MaxPlainLen) \X KeyArgs
            \X (RandomIvs \cup {Undefined}))
           \cup ({49} \X {MAX_PLAINTEXT_SIZE + 1}
                   \X {Undefined, Base64Encode(RandomBytes(KEY_LENGTH, 1))}
                   \X {RandomBytes(IV_LENGTH, 11)}) :
       \E plaintext \in {Repeat(input[1], input[2])} :
         \E outcome \in {encrypt(plaintext, input[3], env, input[4])} :
           /\ call' = [op |-> "encrypt", unit |-> input[1], count |-> input[2],
                       key |-> input[3], env |-> env, iv |-> input[4],
                       earlier |-> Index_encrypt(plaintext, input[3], env, input[4])]
           /\ ret' = outcome
           /\ produced' = Product("encrypt", plaintext, input[3], env, outcome)
  /\ UNCHANGED env

\* decrypt(encryptedData, key), by both modules, of the envelope the caller
\* got or of one no encryption returned.
DecryptBoth ==
  /\ Idle \/ HoldsProduct
  /\ \E encryptedData \in IF produced.made THEN {produced.envelope} ELSE MalformedEnvelopes,
        key \in KeyArgs :
       /\ call' = [op |-> "decrypt", encryptedData |-> encryptedData, key |-> key,
                   env |-> env, earlier |-> Index_decrypt(encryptedData, key, env)]
       /\ ret' = decrypt(encryptedData, key, env)
  /\ UNCHANGED <<env, produced>>

NextBoth ==
  \/ SetEnv
  \/ EncryptBoth
  \/ DecryptBoth
  \/ Return

SpecBoth == Init /\ [][NextBoth]_vars

(***************************************************************************)
(* Properties.  The words they share first.                                *)
(***************************************************************************)
\* A key string that is used as given and decodes to KEY_LENGTH bytes.
ValidKey(k) == Truthy(k) /\ Len(Base64Decode(k)) = KEY_LENGTH

\* A string without an unpaired surrogate.
IsWellFormed(str) ==
  \A i \in 1..Len(str) :
    /\ IsHighSurrogate(str[i]) => i < Len(str) /\ IsLowSurrogate(str[Min(i + 1, Len(str))])
    /\ IsLowSurrogate(str[i]) => i > 1 /\ IsHighSurrogate(str[IF i > 1 THEN i - 1 ELSE 1])

\* The kind of the error a call returned, "none" when it returned none.
ErrorType(outcome) ==
  IF outcome.result.kind = "err" THEN outcome.result.error.type ELSE "none"

\* The call is a decrypt of the envelope the latest encrypt returned.
DecryptsProduced ==
  /\ call.op = "decrypt"
  /\ produced.made
  /\ produced.op = "encrypt"
  /\ call.encryptedData = produced.envelope

\* The call is an encrypt of a plaintext within the limit, or a decrypt of
\* an envelope that passes validation.
ReachesKeyHandling ==
  \/ call.op = "encrypt" /\ Len(Utf8Encode(call.plaintext)) <= 65536
  \/ call.op = "decrypt" /\ validateEncryptedData(call.encryptedData).kind = "ok"

\* C1 as stated: for every plaintext p of at most 65536 UTF-8 bytes and every
\* key k that decodes to 32 bytes, encrypt(p, k) returns ok(e) and
\* decrypt(e, k) returns ok(p).
C1_RoundTripAnyString ==
  /\ (/\ call.op = "encrypt"
      /\ ValidKey(call.key)
      /\ Len(Utf8Encode(call.plaintext)) <= 65536)
       => ret.result.kind = "ok"
  /\ (DecryptsProduced /\ ValidKey(produced.key) /\ call.key = produced.key)
       => ret.result = Ok(produced.plaintext)

\* C1, amended: for every plaintext p without an unpaired surrogate, of at
\* most 65536 UTF-8 bytes, and every key k that decodes to 32 bytes,
\* encrypt(p, k) returns ok(e) and decrypt(e, k) returns ok(p).
C1_RoundTrip ==
  /\ (/\ call.op = "encrypt"
      /\ ValidKey(call.key)
      /\ IsWellFormed(call.plaintext)
      /\ Len(Utf8Encode(call.plaintext)) <= 65536)
       => ret.result.kind = "ok"
  /\ (/\ DecryptsProduced
      /\ ValidKey(produced.key)
      /\ call.key = produced.key
      /\ IsWellFormed(produced.plaintext))
       => ret.result = Ok(produced.plaintext)

\* A text with a character of four UTF-8 bytes came back from decrypt.
C1_Witness ==
  /\ DecryptsProduced
  /\ ValidKey(produced.key)
  /\ call.key = produced.key
  /\ IsWellFormed(produced.plaintext)
  /\ Len(produced.plaintext) = 2
  /\ Len(Utf8Encode(produced.plaintext)) = 4
  /\ ret.result = Ok(produced.plaintext)

\* The envelope e2 is e with the decoded bytes of exactly one field changed,
\* the field's byte length kept, and the field encoded again.
TamperedOnce(e, e2) ==
  \E field \in {"ciphertext", "iv", "tag"} :
    /\ Base64Decode(e2[field]) # Base64Decode(e[field])
    /\ Len(Base64Decode(e2[field])) = Len(Base64Decode(e[field]))
    /\ e2[field] = Base64Encode(Base64Decode(e2[field]))
    /\ \A other \in {"ciphertext", "iv", "tag"} \ {field} : e2[other] = e[other]

\* C2: for every envelope e a successful encrypt(p, k) returned, changing
\* bits of the decoded bytes of exactly one of ciphertext, iv, tag (length
\* kept) and encoding it again makes decrypt(e', k) return DECRYPTION_FAILED.
C2_TamperDetected ==
  (/\ call.op = "decrypt"
   /\ produced.made
   /\ call.key = produced.key
   /\ TamperedOnce(produced.envelope, call.encryptedData))
    => ErrorType(ret) = "DECRYPTION_FAILED"

\* One bit of the ciphertext was flipped and decrypt failed.
C2_Witness ==
  /\ call.op = "decrypt"
  /\ produced.made
  /\ call.key = produced.key
  /\ TamperedOnce(produced.envelope, call.encryptedData)
  /\ call.encryptedData.ciphertext # produced.envelope.ciphertext
  /\ ErrorType(ret) = "DECRYPTION_FAILED"

\* C3: for every envelope e encrypt(p, k) returned and every envelope e'
\* that differs from e in the text of at least one of ciphertext, iv, tag,
\* decrypt(e', k) returns an error and never ok.
C3_AnyTextChangeDetected ==
  (/\ call.op = "decrypt"
   /\ produced.made
   /\ produced.op = "encrypt"
   /\ call.key = produced.key
   /\ call.encryptedData # produced.envelope)
    => ret.result.kind = "err"

\* C3 in a state: after a character "=" was appended to, or the padding was
\* dropped from, a field of the envelope, decrypt returned the plaintext.
C3_Accepted ==
  /\ call.op = "decrypt"
  /\ produced.made
  /\ produced.op = "encrypt"
  /\ call.key = produced.key
  /\ call.encryptedData # produced.envelope
  /\ ret.result = Ok(produced.plaintext)

\* C4 as stated: for every plaintext p within the limit and every two
\* distinct keys k1, k2 that each decode to 32 bytes,
\* decrypt(encrypt(p, k1), k2) returns DECRYPTION_FAILED with an Error cause.
C4_DistinctKeyStrings ==
  (/\ DecryptsProduced
   /\ ValidKey(produced.key)
   /\ ValidKey(call.key)
   /\ call.key # produced.key)
    => ErrorType(ret) = "DECRYPTION_FAILED" /\ ret.result.error.cause = "Error"

\* C4, amended: for every plaintext p within the limit and every two keys
\* k1, k2 that decode to different sequences of 32 bytes,
\* decrypt(encrypt(p, k1), k2) returns DECRYPTION_FAILED with an Error cause.
C4_KeySensitivity ==
  (/\ DecryptsProduced
   /\ ValidKey(produced.key)
   /\ ValidKey(call.key)
   /\ Base64Decode(call.key) # Base64Decode(produced.key))
    => ErrorType(ret) = "DECRYPTION_FAILED" /\ ret.result.error.cause = "Error"

\* A non-empty text was decrypted with another 32-byte key and failed.
C4_Witness ==
  /\ DecryptsProduced
  /\ ValidKey(produced.key)
  /\ ValidKey(call.key)
  /\ Base64Decode(call.key) # Base64Decode(produced.key)
  /\ Len(produced.plaintext) > 0
  /\ ErrorType(ret) = "DECRYPTION_FAILED"
  /\ ret.result.error.cause = "Error"

\* C5: a call of encrypt or decrypt that decoded a key buffer leaves every
\* byte of it zero when it returns: on success, on the InvalidKeyLength
\* return and when the cipher throws (EncryptionFailed, DecryptionFailed).
C5_KeyScrubbed ==
  /\ ("keyBuffer" \in ret.steps) <=> (ret.keyBuffer # Undefined)
  /\ ret.keyBuffer # Undefined => \A i \in 1..Len(ret.keyBuffer) : ret.keyBuffer[i] = 0

\* randomBytes threw in an encrypt that held a 32-byte key buffer.
C5_Witness ==
  /\ call.op = "encrypt"
  /\ ErrorType(ret) = "ENCRYPTION_FAILED"
  /\ Len(ret.keyBuffer) = KEY_LENGTH
  /\ \A i \in 1..KEY_LENGTH : ret.keyBuffer[i] = 0

\* C6: each of encrypt, decrypt, encryptJson, decryptJson returns ok or err
\* for every input and never raises an exception to its caller, also
\* encryptJson of a value JSON.stringify gives no text for.
C6_NeverThrows ==
  call.op \in {"encrypt", "decrypt", "encryptJson", "decryptJson"}
    => ret.result.kind \in {"ok", "err"}

\* The number of UTF-8 bytes of the plaintext of a call at the limit.
PlaintextSize == Len(Utf8Encode(SizedPlaintext(call.unit, call.count, call.tail)))

\* C7: encrypt with a valid key fails with PLAINTEXT_TOO_LARGE, maxSize 65536
\* and actualSize n, exactly when the plaintext has n > 65536 UTF-8 bytes; a
\* plaintext of 65536 bytes is encrypted and one of 65537 is rejected.
C7_SizeBoundary ==
  (call.op = "encrypt" /\ ValidKey(call.key))
    => /\ PlaintextSize > 65536
            => /\ ErrorType(ret) = "PLAINTEXT_TOO_LARGE"
               /\ ret.result.error.maxSize = 65536
               /\ ret.result.error.actualSize = PlaintextSize
       /\ PlaintextSize <= 65536 => ret.result.kind = "ok"

\* A plaintext of exactly 65536 bytes, written in 32768 characters, was
\* encrypted.
C7_Witness ==
  /\ call.op = "encrypt"
  /\ ValidKey(call.key)
  /\ call.count = 32768
  /\ call.tail = <<>>
  /\ PlaintextSize = 65536
  /\ ret.result.kind = "ok"

\* What C8 says of a call made with the key argument call.key.
KeyLengthChecked ==
  IF Len(Base64Decode(call.key)) # 32
  THEN /\ ErrorType(ret) = "INVALID_KEY_LENGTH"
       /\ ret.result.error.expectedLength = 32
       /\ ret.result.error.actualLength = Len(Base64Decode(call.key))
  ELSE ErrorType(ret) # "INVALID_KEY_LENGTH"

\* C8 as stated: for every key whose base64 decoding has n bytes, n # 32,
\* encrypt (plaintext within the limit) and decrypt (well-formed envelope)
\* return INVALID_KEY_LENGTH with expectedLength 32 and actualLength n; a key
\* decoding to 32 bytes never produces INVALID_KEY_LENGTH.
C8_AnyKeyString ==
  (ReachesKeyHandling /\ call.key # Undefined) => KeyLengthChecked

\* C8, amended: the same for every non-empty key.
C8_KeyLengthBoundary ==
  (ReachesKeyHandling /\ Truthy(call.key)) => KeyLengthChecked

\* decrypt of a well-formed envelope with a key of 33 bytes returned
\* INVALID_KEY_LENGTH with the lengths 32 and 33.
C8_Witness ==
  /\ DecryptsProduced
  /\ Len(Base64Decode(call.key)) = 33
  /\ ErrorType(ret) = "INVALID_KEY_LENGTH"
  /\ ret.result.error.expectedLength = 32
  /\ ret.result.error.actualLength = 33

\* One error of every kind but MISSING_ENCRYPTION_KEY.
OtherErrors ==
  << PlaintextTooLargeError(MAX_PLAINTEXT_SIZE, MAX_PLAINTEXT_SIZE + 1),
     InvalidKeyLengthError(KEY_LENGTH, 0),
     InvalidIvLengthError(IV_LENGTH, 0),
     InvalidAuthTagLengthError(TAG_LENGTH, 0),
     InvalidBase64FormatError("iv", "TypeError"),
     EncryptionFailedError("Error"),
     DecryptionFailedError("Error"),
     JsonSerializationFailedError("TypeError"),
     JsonParseFailedError("SyntaxError") >>

\* C9: encrypt (plaintext within the limit) or decrypt (well-formed
\* envelope) called without a key while ENCRYPTION_KEY is absent returns
\* MISSING_ENCRYPTION_KEY, a kind no other error has, and the call creates
\* no key buffer and attempts no cipher operation.
C9_MissingKey ==
  (ReachesKeyHandling /\ call.key = Undefined /\ call.env = Undefined)
    => /\ ErrorType(ret) = "MISSING_ENCRYPTION_KEY"
       /\ \A i \in 1..Len(OtherErrors) : OtherErrors[i].type # ret.result.error.type
       /\ ret.keyBuffer = Undefined
       /\ ret.steps \cap {"keyBuffer", "randomBytes", "createCipheriv", "createDecipheriv"}
            = {}

\* decrypt of an envelope that encrypt returned found no key.
C9_Witness ==
  /\ DecryptsProduced
  /\ call.key = Undefined
  /\ call.env = Undefined
  /\ ErrorType(ret) = "MISSING_ENCRYPTION_KEY"

\* What C10 says of a call made with the key argument call.key: the call
\* does not read ENCRYPTION_KEY, the buffer it decodes is that of call.key,
\* and under every other value of ENCRYPTION_KEY it returns the same.
ExplicitKeyUsed ==
  /\ "getEncryptionKey" \notin ret.steps
  /\ ret.keyBuffer # Undefined => Len(ret.keyBuffer) = Len(Base64Decode(call.key))
  /\ call.op = "encrypt"
       => \A e \in EnvValues : encrypt(call.plaintext, call.key, e, call.iv) = ret
  /\ call.op = "decrypt"
       => \A e \in EnvValues : decrypt(call.encryptedData, call.key, e) = ret

\* C10 as stated: whenever a key argument is passed to encrypt or decrypt,
\* that key is the one used and ENCRYPTION_KEY, present, absent or
\* different, has no influence on the result.
C10_AnyKeyArgument ==
  (call.op \in {"encrypt", "decrypt"} /\ call.key # Undefined) => ExplicitKeyUsed

\* C10, amended: the same whenever a non-empty key argument is passed.
C10_ExplicitKey ==
  (call.op \in {"encrypt", "decrypt"} /\ Truthy(call.key)) => ExplicitKeyUsed

\* A text was decrypted with the key argument it was encrypted with while
\* ENCRYPTION_KEY held another valid key.
C10_Witness ==
  /\ DecryptsProduced
  /\ ValidKey(call.key)
  /\ ValidKey(call.env)
  /\ Base64Decode(call.env) # Base64Decode(call.key)
  /\ ret.result = Ok(produced.plaintext)


(***************************************************************************)
(* Validation of the envelope's fields.                                    *)
(***************************************************************************)
\* C11: decrypt of an envelope whose iv decodes to n bytes, n other than
\* 12, returns INVALID_IV_LENGTH with expectedLength 12 and actualLength n;
\* when the iv decodes to 12 bytes and the tag to m bytes, m other than 16,
\* it returns INVALID_AUTH_TAG_LENGTH with expectedLength 16 and
\* actualLength m.
C11_FieldLengths ==
  (call.op = "decrypt" /\ call.encryptedData.iv # Undefined) =>
    LET n == Len(Base64Decode(call.encryptedData.iv)) IN
      /\ n # 12 =>
            /\ ErrorType(ret) = "INVALID_IV_LENGTH"
            /\ ret.result.error.expectedLength = 12
            /\ ret.result.error.actualLength = n
      /\ (n = 12 /\ call.encryptedData.tag # Undefined) =>
            LET m == Len(Base64Decode(call.encryptedData.tag)) IN
              m # 16 =>
                /\ ErrorType(ret) = "INVALID_AUTH_TAG_LENGTH"
                /\ ret.result.error.expectedLength = 16
                /\ ret.result.error.actualLength = m

\* An iv of 16 bytes is refused as 16 where 12 were expected.
C11_Witness ==
  /\ call.op = "decrypt"
  /\ call.encryptedData.iv = Base64Encode(ZeroBytes(16))
  /\ ErrorType(ret) = "INVALID_IV_LENGTH"
  /\ ret.result.error.actualLength = 16

\* A character of the standard base64 alphabet.
IsStandardChar(c) ==
  \/ c >= 65 /\ c <= 90
  \/ c >= 97 /\ c <= 122
  \/ c >= 48 /\ c <= 57
  \/ c = 43
  \/ c = 47

\* v is a string of valid base64: groups of four characters of the standard
\* alphabet, the last group padded with at most two "=".
IsValidBase64(v) ==
  /\ v # Undefined
  /\ Len(v) % 4 = 0
  /\ Len(v) - Len(Base64Body(v)) <= 2
  /\ \A i \in 1..Len(v) :
       IF i <= Len(Base64Body(v)) THEN IsStandardChar(v[i]) ELSE v[i] = 61

\* The field at which a validation that checks format and length of iv, then
\* of tag, then the format of ciphertext, meets text that is not valid
\* base64; "none" when it meets none.
FirstInvalidField(e) ==
  IF ~IsValidBase64(e.iv) THEN "iv"
  ELSE IF Len(Base64Decode(e.iv)) # 12 THEN "none"
  ELSE IF ~IsValidBase64(e.tag) THEN "tag"
  ELSE IF Len(Base64Decode(e.tag)) # 16 THEN "none"
  ELSE IF ~IsValidBase64(e.ciphertext) THEN "ciphertext"
  ELSE "none"

\* C12: decrypt of an envelope in which the text of iv, tag or ciphertext is
\* not valid base64 returns INVALID_BASE64_FORMAT with the field naming the
\* first such field, before any key is resolved and before any cipher
\* operation.
C12_InvalidBase64Reported ==
  (call.op = "decrypt" /\ FirstInvalidField(call.encryptedData) # "none") =>
    /\ ErrorType(ret) = "INVALID_BASE64_FORMAT"
    /\ ret.result.error.field = FirstInvalidField(call.encryptedData)
    /\ ret.keyBuffer = Undefined
    /\ ret.steps = {}

\* C12 in a state: the ciphertext "not valid base64!!!@#$%" went through
\* validation and on to the decipher, which refused it.
C12_Deciphered ==
  /\ call.op = "decrypt"
  /\ call.encryptedData.ciphertext = NotBase64Text
  /\ ValidKey(call.key)
  /\ ErrorType(ret) = "DECRYPTION_FAILED"
  /\ "createDecipheriv" \in ret.steps

\* C13: whenever the envelope fails validation, decrypt returns that
\* validation error unchanged whatever the key situation is (no key
\* available, a key of the wrong length, a wrong 32-byte key), and in that
\* call no key is resolved, no key buffer is decoded and no decipher is made.
C13_ValidationFirst ==
  (call.op = "decrypt" /\ validateEncryptedData(call.encryptedData).kind = "err") =>
    /\ ret.result = validateEncryptedData(call.encryptedData)
    /\ ErrorType(ret) \in {"INVALID_IV_LENGTH", "INVALID_AUTH_TAG_LENGTH",
                           "INVALID_BASE64_FORMAT"}
    /\ ret.keyBuffer = Undefined
    /\ ret.steps = {}
    /\ \A key \in KeyArgs, envValue \in EnvValues :
         decrypt(call.encryptedData, key, envValue).result = ret.result

\* An iv of 8 bytes is refused as such in a call that has no key at all.
C13_Witness ==
  /\ call.op = "decrypt"
  /\ call.key = Undefined
  /\ call.env = Undefined
  /\ call.encryptedData.iv = Base64Encode(ZeroBytes(8))
  /\ ErrorType(ret) = "INVALID_IV_LENGTH"
  /\ ret.result.error.actualLength = 8
  /\ ret.steps = {}

(***************************************************************************)
(* The order of the checks in encrypt.                                     *)
(***************************************************************************)
\* C14: whenever the plaintext exceeds 65536 UTF-8 bytes, encrypt returns
\* PLAINTEXT_TOO_LARGE whatever the key situation is (no key available, a key
\* of the wrong length), and in that call the key is not resolved, no key
\* buffer is decoded and no nonce is generated.
C14_SizeCheckFirst ==
  (call.op = "encrypt" /\ PlaintextSize > 65536) =>
    /\ ErrorType(ret) = "PLAINTEXT_TOO_LARGE"
    /\ ret.result.error.actualSize = PlaintextSize
    /\ ret.keyBuffer = Undefined
    /\ ret.steps = {}

\* A plaintext of 65537 bytes was refused for its size in a call that had no
\* key at all.
C14_Witness ==
  /\ call.op = "encrypt"
  /\ call.key = Undefined
  /\ call.env = Undefined
  /\ PlaintextSize = 65537
  /\ ErrorType(ret) = "PLAINTEXT_TOO_LARGE"
  /\ ret.steps = {}

(***************************************************************************)
(* The JSON operations.                                                    *)
(***************************************************************************)
\* A value with no JSON text: a cyclic structure, a BigInt or a non-finite
\* number, wherever it is nested, and undefined, a function or a symbol
\* standing alone.
RECURSIVE HasNoJsonForm(_)
HasNoJsonForm(value) ==
  IF value.t \in {"bigint", "cyclic", "nan"} THEN TRUE
  ELSE IF value.t = "array"
    THEN \E i \in 1..Len(value.items) : HasNoJsonForm(value.items[i])
  ELSE IF value.t = "object"
    THEN \E i \in 1..Len(value.pairs) : HasNoJsonForm(value.pairs[i][2])
  ELSE FALSE

CannotBeJson(value) ==
  value.t \in {"undefined", "function", "symbol"} \/ HasNoJsonForm(value)

\* C15: for every value that cannot be represented as JSON text (a cyclic
\* structure, a BigInt, an unsupported value such as a non-finite number),
\* encryptJson returns JSON_SERIALIZATION_FAILED and performs no encryption;
\* for every other value it returns exactly what encrypt returns on the
\* serialized text.
C15_SerializationFailure ==
  call.op = "encryptJson" =>
    IF CannotBeJson(call.data)
    THEN /\ ErrorType(ret) = "JSON_SERIALIZATION_FAILED"
         /\ ret.keyBuffer = Undefined
         /\ ret.steps = {}
    ELSE ret = encrypt(JsonText(call.data), call.key, call.env, call.iv)

\* C15 in a state: encryptJson(NaN) returned an envelope.
C15_NaNEncrypted ==
  /\ call.op = "encryptJson"
  /\ call.data = JsNaN
  /\ ret.result.kind = "ok"

\* A JSON-serializable value: null, a boolean, a number, a string, an array
\* of such values, an object whose members are such values.
RECURSIVE IsJsonData(_)
IsJsonData(value) ==
  IF value.t \in {"null", "boolean", "number", "string"} THEN TRUE
  ELSE IF value.t = "array"
    THEN \A i \in 1..Len(value.items) : IsJsonData(value.items[i])
  ELSE IF value.t = "object"
    THEN \A i \in 1..Len(value.pairs) : IsJsonData(value.pairs[i][2])
  ELSE FALSE

\* Deep equality of two values: the same kind and the same content, the
\* members of an object in any order.
RECURSIVE DeepEqual(_, _)
DeepEqual(a, b) ==
  IF a.t # b.t THEN FALSE
  ELSE IF a.t = "boolean" THEN a.b = b.b
  ELSE IF a.t = "number" THEN a.n = b.n
  ELSE IF a.t = "string" THEN a.s = b.s
  ELSE IF a.t = "array"
    THEN /\ Len(a.items) = Len(b.items)
         /\ \A i \in 1..Len(a.items) : DeepEqual(a.items[i], b.items[i])
  ELSE IF a.t = "object"
    THEN /\ Len(a.pairs) = Len(b.pairs)
         /\ \A i \in 1..Len(a.pairs) :
              \E j \in 1..Len(b.pairs) :
                /\ a.pairs[i][1] = b.pairs[j][1]
                /\ DeepEqual(a.pairs[i][2], b.pairs[j][2])
  ELSE TRUE

\* C16: for every JSON-serializable value v whose serialization is within the
\* size limit and every valid key k, encryptJson(v, k) returns ok and
\* decryptJson of its envelope with k returns ok with a value deep-equal to v.
C16_JsonRoundTrip ==
  /\ (call.op = "encryptJson" /\ IsJsonData(call.data) /\ ValidKey(call.key))
       => ret.result.kind = "ok"
  /\ (/\ call.op = "decryptJson"
      /\ produced.made
      /\ produced.op = "encryptJson"
      /\ IsJsonData(produced.data)
      /\ ValidKey(produced.key)
      /\ call.key = produced.key
      /\ call.encryptedData = produced.envelope)
       => /\ ret.result.kind = "ok"
          /\ DeepEqual(ret.result.value, produced.data)

\* The nested value [{"k\"": null}, 120, "\\\n\u0001"] came back from
\* decryptJson as it went into encryptJson.
C16_Witness ==
  /\ call.op = "decryptJson"
  /\ produced.made
  /\ produced.op = "encryptJson"
  /\ produced.data.t = "array"
  /\ Len(produced.data.items) = 3
  /\ produced.data.items[1].t = "object"
  /\ ValidKey(produced.key)
  /\ call.key = produced.key
  /\ ret.result = Ok(produced.data)

\* C17: decryptJson returns exactly the error decrypt returns whenever
\* decrypt fails, with no JSON parsing attempted, and returns
\* JSON_PARSE_FAILED only when decrypt succeeded and the recovered text is not
\* valid JSON: never for a validation, key or decryption failure.
C17_ErrorSeparation ==
  call.op = "decryptJson" =>
    \E decrypted \in {decrypt(call.encryptedData, call.key, call.env)} :
      /\ decrypted.result.kind = "err" =>
           /\ ret.result = decrypted.result
           /\ ErrorType(ret) \in {"INVALID_IV_LENGTH", "INVALID_AUTH_TAG_LENGTH",
                                  "INVALID_BASE64_FORMAT", "MISSING_ENCRYPTION_KEY",
                                  "INVALID_KEY_LENGTH", "DECRYPTION_FAILED"}
           /\ "JSON.parse" \notin ret.steps
      /\ ErrorType(ret) = "JSON_PARSE_FAILED" =>
           /\ decrypted.result.kind = "ok"
           /\ JsonParse(decrypted.result.value).threw

\* The text "1é", encrypted by encrypt, was decrypted by decryptJson and
\* refused by the parser.
C17_Witness ==
  /\ call.op = "decryptJson"
  /\ produced.made
  /\ produced.op = "encrypt"
  /\ produced.plaintext = <<49, 233>>
  /\ ErrorType(ret) = "JSON_PARSE_FAILED"
  /\ "JSON.parse" \in ret.steps

(***************************************************************************)
(* The envelope.                                                           *)
(***************************************************************************)
\* C19: every envelope a successful encrypt(p, k) returns has an iv that
\* decodes to exactly 12 bytes, a tag that decodes to exactly 16 bytes, and a
\* ciphertext whose decoded length is the UTF-8 byte length of p, empty for
\* the empty plaintext.
C19_EnvelopeShape ==
  (call.op = "encrypt" /\ ret.result.kind = "ok") =>
    /\ Len(Base64Decode(ret.result.value.iv)) = 12
    /\ Len(Base64Decode(ret.result.value.tag)) = 16
    /\ Len(Base64Decode(ret.result.value.ciphertext)) = Len(Utf8Encode(call.plaintext))
    /\ call.plaintext = EmptyString => ret.result.value.ciphertext = EmptyString

\* The two characters "é€", five bytes of UTF-8, were encrypted to a
\* ciphertext of five bytes, eight characters of base64.
C19_Witness ==
  /\ call.op = "encrypt"
  /\ call.plaintext = <<233, 8364>>
  /\ ret.result.kind = "ok"
  /\ Len(ret.result.value.ciphertext) = 8
  /\ Len(Base64Decode(ret.result.value.ciphertext)) = 5

\* The call decrypts, with a key of 32 bytes, a well-formed envelope that
\* differs from the one encrypt returned in the bytes of a field, or the
\* envelope encrypt returned with other key bytes.
FailureCause ==
  IF ~(call.op = "decrypt" /\ produced.made /\ ValidKey(call.key)
         /\ validateEncryptedData(call.encryptedData).kind = "ok")
  THEN "none"
  ELSE IF Base64Decode(call.key) # Base64Decode(produced.key) THEN "wrong key"
  ELSE IF Base64Decode(call.encryptedData.iv) # Base64Decode(produced.envelope.iv)
    THEN "tampered iv"
  ELSE IF Base64Decode(call.encryptedData.tag) # Base64Decode(produced.envelope.tag)
    THEN "tampered tag"
  ELSE IF Len(Base64Decode(call.encryptedData.ciphertext))
            # Len(Base64Decode(produced.envelope.ciphertext))
    THEN "corrupted ciphertext"
  ELSE IF Base64Decode(call.encryptedData.ciphertext)
            # Base64Decode(produced.envelope.ciphertext)
    THEN "tampered ciphertext"
  ELSE "none"

\* C20: for a well-formed envelope and a 32-byte key, decrypt reports a wrong
\* key, a tampered ciphertext, a tampered iv, a tampered tag and a corrupted
\* ciphertext all with the one error kind DECRYPTION_FAILED, the same error
\* whichever the cause.
C20_OneFailureKind ==
  FailureCause # "none" =>
    /\ ErrorType(ret) = "DECRYPTION_FAILED"
    /\ ret.result = [kind |-> "err",
                     error |-> [type |-> "DECRYPTION_FAILED", cause |-> "Error"]]

\* A ciphertext cut short by a byte failed as a wrong key does.
C20_Witness ==
  /\ FailureCause = "corrupted ciphertext"
  /\ ErrorType(ret) = "DECRYPTION_FAILED"
  /\ ret.result = decrypt(produced.envelope,
                          CHOOSE k \in ValidKeys : k # produced.key, call.env).result

(***************************************************************************)
(* The default key over a sequence of calls.                               *)
(***************************************************************************)
\* The call is a decrypt, without a key argument, of the envelope an encrypt
\* without a key argument returned.
DecryptsByDefault ==
  /\ call.op = "decrypt"
  /\ call.key = Undefined
  /\ produced.made
  /\ produced.key = Undefined
  /\ call.encryptedData = produced.envelope

\* C21: each call without an explicit key uses the value ENCRYPTION_KEY holds
\* at the time of that call: an envelope encrypted while the value was k1
\* fails to decrypt with DECRYPTION_FAILED while the value is another valid
\* k2, decrypts while it is k1 again, and yields MISSING_ENCRYPTION_KEY while
\* it is removed, whatever the calls before returned.
C21_ReadPerCall ==
  DecryptsByDefault =>
    /\ call.env = Undefined => ErrorType(ret) = "MISSING_ENCRYPTION_KEY"
    /\ (ValidKey(call.env) /\ Base64Decode(call.env) # Base64Decode(produced.env))
         => ErrorType(ret) = "DECRYPTION_FAILED"
    /\ call.env = produced.env =>
         /\ ret.result.kind = "ok"
         /\ IsWellFormed(produced.plaintext) => ret.result.value = produced.plaintext

\* With ENCRYPTION_KEY back at the value the envelope was made under, it was
\* decrypted, right after a decrypt that failed under another valid key.
C21_Witness ==
  /\ DecryptsByDefault
  /\ call.previous = "DECRYPTION_FAILED"
  /\ call.env = produced.env
  /\ ret.result = Ok(produced.plaintext)
  /\ Len(produced.plaintext) > 0

(***************************************************************************)
(* Calls in flight together.                                               *)
(***************************************************************************)
\* C22: in any interleaving of the steps of the calls in flight, each call
\* decodes and zeroes its own key buffer, the zeroing by one call never
\* changes the key bytes another call in flight is using, and each call
\* returns the result it returns when run alone.
C22_Independent ==
  call.op = "pair" =>
    \A i \in 1..Len(call.calls) :
      /\ call.calls[i].pc \in {"decoded", "ciphered"}
           => call.calls[i].keyBuffer = Base64Decode(call.calls[i].encryptionKey)
      /\ call.calls[i].pc \in {"ciphered", "done"}
           => call.calls[i].result
                = AloneOutcome(call.calls[i].args, call.calls[i].env).result
      /\ (call.calls[i].pc = "done" /\ call.calls[i].keyBuffer # Undefined)
           => /\ Len(call.calls[i].keyBuffer) = Len(Base64Decode(call.calls[i].encryptionKey))
              /\ \A b \in 1..Len(call.calls[i].keyBuffer) : call.calls[i].keyBuffer[b] = 0

\* A decrypt held its decoded key while an encrypt with the same key string
\* zeroed its buffer, and went on to return the plaintext.
C22_Witness ==
  /\ call.op = "pair"
  /\ call.calls[1].args.op = "encrypt"
  /\ call.calls[2].args.op = "decrypt"
  /\ call.calls[1].encryptionKey = call.calls[2].encryptionKey
  /\ call.calls[1].pc = "done"
  /\ call.calls[1].result.kind = "ok"
  /\ call.calls[2].overlapped
  /\ call.calls[2].pc = "done"
  /\ call.calls[2].result = Ok(<<49, 233>>)

(***************************************************************************)
(* Keys.                                                                   *)
(***************************************************************************)
\* 32 bytes as randomBytes may return them: draws, all zeros, all 255.
KeyDraws ==
  {RandomBytes(32, a) : a \in 1..(NumKeys + 6)}
    \cup {AsSeq([i \in 1..32 |-> 0]), AsSeq([i \in 1..32 |-> 255])}

\* C23: every string generateEncryptionKey returns decodes from base64 to
\* exactly 32 bytes, the bytes drawn, and encrypt and decrypt called with it
\* never return INVALID_KEY_LENGTH or MISSING_ENCRYPTION_KEY.
C23_GeneratedKeys ==
  /\ \A bytes \in KeyDraws :
       /\ Len(generateEncryptionKey(bytes)) = 44
       /\ Base64Decode(generateEncryptionKey(bytes)) = bytes
  /\ (call.op \in {"encrypt", "decrypt"} /\ call.key \in ValidKeys)
       => ErrorType(ret) \notin {"INVALID_KEY_LENGTH", "MISSING_ENCRYPTION_KEY"}

\* encrypt took a generated key while ENCRYPTION_KEY was not set and returned
\* an envelope.
C23_Witness ==
  /\ call.op = "encrypt"
  /\ call.key \in ValidKeys
  /\ call.env = Undefined
  /\ Len(Base64Decode(call.key)) = 32
  /\ ret.result.kind = "ok"

(***************************************************************************)
(* The error kinds of each operation.                                      *)
(***************************************************************************)
EncryptErrorKinds ==
  {"PLAINTEXT_TOO_LARGE", "INVALID_KEY_LENGTH", "MISSING_ENCRYPTION_KEY",
   "ENCRYPTION_FAILED"}

DecryptErrorKinds ==
  {"INVALID_IV_LENGTH", "INVALID_AUTH_TAG_LENGTH", "INVALID_BASE64_FORMAT",
   "INVALID_KEY_LENGTH", "MISSING_ENCRYPTION_KEY", "DECRYPTION_FAILED"}

\* C24: every call ends in ok or in an error of one of the ten kinds: encrypt
\* in one of its four, decrypt in one of its six, encryptJson in one of
\* encrypt's or JSON_SERIALIZATION_FAILED, decryptJson in one of decrypt's or
\* JSON_PARSE_FAILED; no failure ends otherwise.
C24_ClosedErrorSets ==
  call.op # "none" =>
    /\ ret.result.kind \in {"ok", "err"}
    /\ ret.result.kind = "err" =>
         /\ call.op = "encrypt" => ErrorType(ret) \in EncryptErrorKinds
         /\ call.op = "decrypt" => ErrorType(ret) \in DecryptErrorKinds
         /\ call.op = "encryptJson" =>
              ErrorType(ret) \in EncryptErrorKinds \cup {"JSON_SERIALIZATION_FAILED"}
         /\ call.op = "decryptJson" =>
              ErrorType(ret) \in DecryptErrorKinds \cup {"JSON_PARSE_FAILED"}

\* C24 in a state: encryptJson of a function ended in a TypeError thrown to
\* the caller, which is none of the ten kinds.
C24_Thrown ==
  /\ call.op = "encryptJson"
  /\ call.data = JsFunction
  /\ ret.result = Throw("TypeError")

(***************************************************************************)
(* The order of the checks in validateEncryptedData.                       *)
(***************************************************************************)
\* The field is no string, or decodes to another number of bytes than
\* expected.
FieldFails(e, field, expected) ==
  \/ e[field] = Undefined
  \/ Len(Base64Decode(e[field])) # expected

\* The error names the field, as a format error or as the length error of
\* that field.
ErrorNames(outcome, field) ==
  \/ ErrorType(outcome) = "INVALID_BASE64_FORMAT" /\ outcome.result.error.field = field
  \/ field = "iv" /\ ErrorType(outcome) = "INVALID_IV_LENGTH"
  \/ field = "tag" /\ ErrorType(outcome) = "INVALID_AUTH_TAG_LENGTH"

\* C25: the fields are checked in the order iv, tag, ciphertext and the first
\* failing field determines the error: an envelope whose iv and tag both have
\* wrong lengths yields INVALID_IV_LENGTH, and a wrong-length tag is reported
\* even when the ciphertext is malformed too.
C25_ValidationOrder ==
  call.op = "decrypt" =>
    /\ FieldFails(call.encryptedData, "iv", 12) => ErrorNames(ret, "iv")
    /\ (/\ ~FieldFails(call.encryptedData, "iv", 12)
        /\ FieldFails(call.encryptedData, "tag", 16)) => ErrorNames(ret, "tag")
    /\ (/\ ~FieldFails(call.encryptedData, "iv", 12)
        /\ ~FieldFails(call.encryptedData, "tag", 16)
        /\ call.encryptedData.ciphertext = Undefined) => ErrorNames(ret, "ciphertext")
    /\ (/\ call.encryptedData.iv # Undefined
        /\ Len(Base64Decode(call.encryptedData.iv)) # 12
        /\ FieldFails(call.encryptedData, "tag", 16))
         => ErrorType(ret) = "INVALID_IV_LENGTH"

\* A tag of 8 bytes was reported although the ciphertext was no string.
C25_Witness ==
  /\ call.op = "decrypt"
  /\ call.encryptedData.ciphertext = Undefined
  /\ call.encryptedData.tag = Base64Encode(ZeroBytes(8))
  /\ ErrorType(ret) = "INVALID_AUTH_TAG_LENGTH"
  /\ ret.result.error.actualLength = 8

(***************************************************************************)
(* The size limit of encryptJson.                                          *)
(***************************************************************************)
\* The bytes one character takes in JSON text written in UTF-8: a quote is
\* written with a backslash before it.
JsonCharSize(u) == IF u = 34 THEN 2 ELSE IF u < 128 THEN 1 ELSE IF u < 2048 THEN 2 ELSE 3

\* The number of UTF-8 bytes of the JSON text of the array the call was made
\* with: the brackets, the quotes and the characters of the string.
JsonTextSize ==
  4 + (call.count * JsonCharSize(call.unit))
    + (IF call.tail = <<>> THEN 0 ELSE JsonCharSize(call.tail[1]))

\* C26: encryptJson applies the limit to the serialized text: a serializable
\* value whose JSON text has n > 65536 UTF-8 bytes gives PLAINTEXT_TOO_LARGE
\* with maxSize 65536 and actualSize n, whatever the key, and one of at most
\* 65536 bytes is encrypted with a valid key, the ciphertext being the Base64
\* text of as many bytes; serialization comes before any size, key or cipher
\* step, a cyclic value giving
\* JSON_SERIALIZATION_FAILED whatever its size and with no key available.
C26_JsonSizeLimit ==
  call.op = "encryptJson" =>
    IF call.cyclic
    THEN ErrorType(ret) = "JSON_SERIALIZATION_FAILED" /\ ret.steps = {}
    ELSE /\ JsonTextSize > 65536 =>
              /\ ErrorType(ret) = "PLAINTEXT_TOO_LARGE"
              /\ ret.result.error.maxSize = 65536
              /\ ret.result.error.actualSize = JsonTextSize
              /\ ret.steps = {}
         /\ (JsonTextSize <= 65536 /\ ValidKey(call.key)) =>
              /\ ret.result.kind = "ok"
              /\ ret.result.value.ciphertextLength = 4 * ((JsonTextSize + 2) \div 3)

\* A string of 32766 quotes and an "x", 32767 characters, was refused as
\* 65537 bytes.
C26_Witness ==
  /\ call.op = "encryptJson"
  /\ call.unit = 34
  /\ call.count = 32766
  /\ call.tail = <<120>>
  /\ JsonTextSize = 65537
  /\ ErrorType(ret) = "PLAINTEXT_TOO_LARGE"
  /\ ret.result.error.actualSize = 65537

C28_EmptyKeyIsNoKey ==
  (/\ call.op \in {"encrypt", "decrypt"}
   /\ call.key \in {EmptyString, Undefined}
   /\ call.op = "decrypt" => validateEncryptedData(call.encryptedData).kind = "ok")
    => /\ "getEncryptionKey" \in ret.steps
       /\ IF call.env \in {Undefined, EmptyString}
          THEN /\ ErrorType(ret) = "MISSING_ENCRYPTION_KEY"
               /\ ret.keyBuffer = Undefined
          ELSE IF Len(Base64Decode(call.env)) # 32
          THEN /\ ErrorType(ret) = "INVALID_KEY_LENGTH"
               /\ ret.result.error.actualLength = Len(Base64Decode(call.env))
               /\ ret.result.error.actualLength # 0
          ELSE /\ ErrorType(ret) \notin {"MISSING_ENCRYPTION_KEY", "INVALID_KEY_LENGTH"}
               /\ ret.keyBuffer = FillZero(Base64Decode(call.env))

\* decrypt with the empty string as key opened, with the key of the
\* environment, an envelope made under that key.
C28_Witness ==
  /\ call.op = "decrypt"
  /\ call.key = EmptyString
  /\ call.env \in ValidKeys
  /\ "getEncryptionKey" \in ret.steps
  /\ ret.result.kind = "ok"

\* C29: decrypt of an envelope a successful encrypt returned, with any key,
\* passes validation: it never returns INVALID_IV_LENGTH,
\* INVALID_AUTH_TAG_LENGTH or INVALID_BASE64_FORMAT, and it ends in ok,
\* MISSING_ENCRYPTION_KEY, INVALID_KEY_LENGTH or DECRYPTION_FAILED.
C29_OutputWellFormed ==
  (call.op = "decrypt" /\ produced.made /\ call.encryptedData = produced.envelope)
    => /\ ret.result.kind \in {"ok", "err"}
       /\ ret.result.kind = "err" =>
            /\ ret.result.error.type \notin
                 {"INVALID_IV_LENGTH", "INVALID_AUTH_TAG_LENGTH", "INVALID_BASE64_FORMAT"}
            /\ ret.result.error.type \in
                 {"MISSING_ENCRYPTION_KEY", "INVALID_KEY_LENGTH", "DECRYPTION_FAILED"}
       /\ ret.steps # {}

\* An envelope encrypt returned was decrypted with a key of 33 bytes: the
\* call got as far as the key and failed there.
C29_Witness ==
  /\ call.op = "decrypt"
  /\ produced.made
  /\ call.encryptedData = produced.envelope
  /\ call.key = LongKey
  /\ ErrorType(ret) = "INVALID_KEY_LENGTH"
  /\ "keyBuffer" \in ret.steps

\* The call found no key: no key argument or the empty one, with
\* ENCRYPTION_KEY unset or empty, after a plaintext within the limit or an
\* envelope that passes validation.
NoKeyCase ==
  /\ call.key \in {Undefined, EmptyString}
  /\ call.env \in {Undefined, EmptyString}
  /\ call.op = "encrypt" => call.count <= MAX_PLAINTEXT_SIZE
  /\ call.op = "decrypt" => validateEncryptedData(call.encryptedData).kind = "ok"

\* C30: crypto/index.ts and lib/crypto.ts, called with the same arguments,
\* succeed on the same inputs, then with the same envelope or plaintext, and
\* fail on the same inputs, the earlier module with a plain Error where the
\* current one has a typed error; an envelope of either decrypts to the
\* plaintext with the other; and where no key is found, and only there, the
\* earlier module throws and the current one returns MISSING_ENCRYPTION_KEY.
C30_Interchangeable ==
  call.op \in {"encrypt", "decrypt"} =>
    /\ ret.result.kind \in {"ok", "err"}
    /\ call.earlier.result.kind \in {"ok", "err", "throw"}
    /\ (ret.result.kind = "ok") = (call.earlier.result.kind = "ok")
    /\ ret.result.kind = "ok" => call.earlier.result.value = ret.result.value
    /\ (call.earlier.result.kind = "throw") = NoKeyCase
    /\ (ErrorType(ret) = "MISSING_ENCRYPTION_KEY") = NoKeyCase
    /\ call.earlier.result.kind = "throw" => call.earlier.result.name = "Error"
    /\ call.earlier.result.kind = "err" =>
         /\ call.earlier.result.error.type = "Error"
         /\ ret.result.kind = "err"
         /\ ret.result.error.type # "Error"
    /\ call.earlier.keyBuffer = ret.keyBuffer
    /\ (call.op = "decrypt" /\ produced.made /\ call.key = produced.key) =>
         /\ call.earlier.result = Ok(Utf8Decode(Utf8Encode(produced.plaintext)))
         /\ ret.result = call.earlier.result

\* Both modules decrypted, with the key of the environment, the envelope
\* both had made of the two characters "\u00e9\u00e9".
C30_Witness ==
  /\ call.op = "decrypt"
  /\ produced.made
  /\ produced.plaintext = <<233, 233>>
  /\ call.key = Undefined
  /\ call.encryptedData = produced.envelope
  /\ call.earlier.result = Ok(<<233, 233>>)
  /\ ret.result = Ok(<<233, 233>>)

====
